---- MODULE Spec2Model ----
(***************************************************************************)
(* Patricia Merkle Tree.                                                   *)
(*                                                                         *)
(* Two tries live in the sources:                                          *)
(*   - the arena trie (lib.rs, nodes/leaf.rs, nodes/branch.rs,             *)
(*     nodes/extension.rs): nodes and values in two slabs, handles;        *)
(*   - the boxed trie (node.rs, node/leaf.rs, node/branch.rs,              *)
(*     node/extension.rs): owned children, fixed-length keys, remove.      *)
(* Each has its own variables and its own specification.                   *)
(***************************************************************************)
EXTENDS Integers, Sequences, FiniteSets, TLC

VARIABLES
    root_ref,   \* arena trie: handle of the root node
    nodes,      \* arena trie: the node slab
    values,     \* arena trie: the slab of (path, value) pairs
    model,      \* the key/value map the arena trie is meant to hold
    root_node,  \* boxed trie: the root node, or Nil
    bmodel,     \* the key/value map the boxed trie is meant to hold
    iter,       \* boxed trie: the tree iterator and what it has yielded
    nibbles,    \* the nibble slice or vector a nibble operation is applied to
    last,       \* the last call and what it returned
    aborted     \* a call panicked

vars == <<root_ref, nodes, values, model, root_node, bmodel, iter, nibbles, last, aborted>>

arenaVars == <<root_ref, nodes, values, model>>

boxedVars == <<root_node, bmodel>>

otherVars == <<iter, nibbles>>

----------------------------------------------------------------------------
(* Bounds and input sets *)

\* most values the arena trie stores in a run
MaxLen == 3

\* recursion budget of a lookup; a lookup that exceeds it never returns
MaxDepth == 8

\* keys of the arena trie: byte strings, with strict prefixes of one another,
\* first-, middle- and last-nibble divergences
Keys == { <<>>, <<0>>, <<16>>, <<0, 0>>, <<0, 1>>, <<16, 0>>, <<1>> }

\* most values the arena trie stores in a run with hashing
MaxLenH == 2

\* keys of the runs with hashing
HKeys == { <<>>, <<0>>, <<0, 0>>, <<0, 1>>, <<16>> }

\* values: byte strings
Values == { <<1>>, <<2>> }

----------------------------------------------------------------------------
(* Option values *)

None == [some |-> FALSE, val |-> <<>>]

\* the result of a call that panicked, of the shape of the result r
Panicked(r) == [r EXCEPT !.panic = TRUE]

Some(v) == [some |-> TRUE, val |-> v]

----------------------------------------------------------------------------
(* Handles and slabs *)

INVALID_REF == -1

\* an empty slab: no entries, next key 0
SlabNew == [entries |-> <<>>, next |-> 0]

\* entry at key k (0-based) of slab s
SlabEntry(s, k) == s.entries[k + 1]

SlabContains(s, k) == k >= 0 /\ k < Len(s.entries) /\ SlabEntry(s, k).occ

\* the key the next insert will use
vacant_key(s) == s.next

\* insert: reuse the most recently freed slot, else append
SlabInsert(s, item) ==
    LET key == s.next
    IN  IF key = Len(s.entries)
        THEN [slab |-> [entries |-> Append(s.entries, [occ |-> TRUE, item |-> item, nxt |-> 0]),
                        next |-> key + 1],
              key |-> key]
        ELSE [slab |-> [entries |-> [s.entries EXCEPT ![key + 1] =
                                        [occ |-> TRUE, item |-> item, nxt |-> 0]],
                        next |-> SlabEntry(s, key).nxt],
              key |-> key]

\* try_remove: the freed slot becomes the head of the free list
SlabRemove(s, k) ==
    [entries |-> [s.entries EXCEPT ![k + 1] = [occ |-> FALSE, item |-> None, nxt |-> s.next]],
     next |-> k]

SlabLen(s) == Cardinality({ k \in 1..Len(s.entries) : s.entries[k].occ })

----------------------------------------------------------------------------
(* Nibbles *)

\* number of nibbles of a byte string
NibbleCount(data) == 2 * Len(data)

\* nibble i (0-based) of a byte string, high nibble first
NibbleAt(data, i) ==
    LET byte == data[(i \div 2) + 1]
    IN  IF i % 2 # 0 THEN byte % 16 ELSE byte \div 16

NibbleSliceNew(data) == [data |-> data, offset |-> 0]

\* NibbleSlice::peek: None (-1) when the slice is exhausted
peek(path) ==
    IF path.offset \div 2 < Len(path.data) THEN NibbleAt(path.data, path.offset) ELSE -1

offset_add(path, delta) == [path EXCEPT !.offset = @ + delta]

\* byte sub-slice data[from..to) with 0-based bounds
ByteSlice(data, from, to) == SubSeq(data, from + 1, to)

\* NibbleSlice::split_to_vec
split_to_vec(path, offset) ==
    [data |-> ByteSlice(path.data, path.offset \div 2, (path.offset + offset + 1) \div 2),
     first_is_half |-> path.offset % 2 # 0,
     last_is_half |-> (path.offset + offset) % 2 # 0]

\* the nibbles a NibbleVecIter yields
RECURSIVE NibbleVecIter(_, _)
NibbleVecIter(vec, pos) ==
    IF pos \div 2 >= Len(vec.data) THEN <<>>
    ELSE IF (pos \div 2) + 1 = Len(vec.data) /\ pos % 2 = 1 /\ vec.last_is_half THEN <<>>
    ELSE <<NibbleAt(vec.data, pos)>> \o NibbleVecIter(vec, pos + 1)

NibbleVecNibbles(vec) == NibbleVecIter(vec, IF vec.first_is_half THEN 1 ELSE 0)

\* NibbleVec::new: the empty nibble vector
NibbleVecNew == [data |-> <<>>, first_is_half |-> FALSE, last_is_half |-> FALSE]

\* NibbleVec::normalize
normalize(self) ==
    IF self.data = <<>> \/ (Len(self.data) = 1 /\ self.first_is_half /\ self.last_is_half)
    THEN NibbleVecNew
    ELSE self

\* result of split_extract_at: a panic, or the left vector, the nibble and
\* the right vector
SplitPanicked ==
    [panic |-> TRUE, left |-> NibbleVecNew, value |-> 0, right |-> NibbleVecNew]

\* split_extract_at that hands both sides out as they were cut
split_extract_at_raw(self, index) ==
    LET first == IF self.first_is_half THEN 1 ELSE 0
        last_half == IF self.last_is_half THEN 1 ELSE 0
        cut == (index + 1 + first) \div 2
        offset == index + first
    IN  IF cut > Len(self.data) THEN SplitPanicked
        ELSE IF ~((offset + last_half) \div 2 < Len(self.data)) THEN SplitPanicked
        ELSE [panic |-> FALSE,
              left |-> [data |-> ByteSlice(self.data, 0, cut),
                        first_is_half |-> self.first_is_half,
                        last_is_half |-> (index + first) % 2 # 0],
              value |-> NibbleAt(self.data, offset),
              right |-> [data |-> IF cut >= Len(self.data) THEN <<>>
                                  ELSE ByteSlice(self.data, cut, Len(self.data)),
                         first_is_half |-> (index + first) % 2 = 0,
                         last_is_half |-> self.last_is_half]]

\* NibbleVec::split_extract_at: the slice of the left side panics when it
\* ends after the data, the assert when the nibble is out of bounds
split_extract_at(self, index) ==
    LET first == IF self.first_is_half THEN 1 ELSE 0
        last_half == IF self.last_is_half THEN 1 ELSE 0
        cut == (index + 1 + first) \div 2
        offset == index + first
    IN  IF cut > Len(self.data) THEN SplitPanicked
        ELSE IF ~((offset + last_half) \div 2 < Len(self.data)) THEN SplitPanicked
        ELSE [panic |-> FALSE,
              left |-> normalize([data |-> ByteSlice(self.data, 0, cut),
                                  first_is_half |-> self.first_is_half,
                                  last_is_half |-> (index + first) % 2 # 0]),
              value |-> NibbleAt(self.data, offset),
              right |-> normalize([data |-> IF cut >= Len(self.data) THEN <<>>
                                            ELSE ByteSlice(self.data, cut, Len(self.data)),
                                   first_is_half |-> (index + first) % 2 = 0,
                                   last_is_half |-> self.last_is_half])]

\* result of skip_prefix: a panic, or what it returned and the offset of
\* the slice afterwards
Skipped(ret, offset) == [panic |-> FALSE, ret |-> ret, offset |-> offset]

\* NibbleSlice::skip_prefix: the assert on the alignment and the slice of
\* the data panic; the three comparisons are the first half byte, the
\* last half byte and the whole bytes between
skip_prefix(self, prefix) ==
    LET from == self.offset \div 2
        len == Len(prefix.data)
        self_slice == ByteSlice(self.data, from, from + len)
        first == IF prefix.first_is_half THEN 1 ELSE 0
        last_half == IF prefix.last_is_half THEN 1 ELSE 0
        \* the whole bytes left once the half bytes are cut off
        lo == first
        hi == len - last_half
    IN  IF (self.offset % 2 # 0) # prefix.first_is_half THEN Panicked(Skipped(FALSE, 0))
        ELSE IF Len(self.data) < len THEN Skipped(FALSE, self.offset)
        ELSE IF from + len > Len(self.data) THEN Panicked(Skipped(FALSE, 0))
        ELSE IF len = 0 \/ (len = 1 /\ prefix.first_is_half /\ prefix.last_is_half)
        THEN Skipped(TRUE, self.offset)
        ELSE IF prefix.first_is_half /\ prefix.data[1] % 16 # self_slice[1] % 16
        THEN Skipped(FALSE, self.offset)
        ELSE IF prefix.last_is_half /\ hi < lo THEN Panicked(Skipped(FALSE, 0))
        ELSE IF prefix.last_is_half /\ prefix.data[len] \div 16 # self_slice[len] \div 16
        THEN Skipped(FALSE, self.offset)
        ELSE IF ByteSlice(self_slice, lo, hi) # ByteSlice(prefix.data, lo, hi)
        THEN Skipped(FALSE, self.offset)
        ELSE Skipped(TRUE, self.offset + 2 * len - first - last_half)

\* NibbleSlice::cmp_rest: "panic" on an out-of-range slice index
cmp_rest(path, other) ==
    LET from == path.offset \div 2
    IN  IF from > Len(other) \/ from > Len(path.data) THEN "panic"
        ELSE LET othr_slice == ByteSlice(other, from, Len(other))
                 self_slice == ByteSlice(path.data, from, Len(path.data))
             IN  IF path.offset % 2 # 0
                 THEN IF Len(othr_slice) = 0 \/ Len(self_slice) = 0 THEN "panic"
                      ELSE IF othr_slice[1] % 16 # self_slice[1] % 16 THEN "false"
                      ELSE IF Tail(self_slice) = Tail(othr_slice) THEN "true" ELSE "false"
                 ELSE IF self_slice = othr_slice THEN "true" ELSE "false"

\* Offseted::count_equals: the count of the leading nibbles of `prefix`
\* the path has at its offset (the iterator is advanced past them by the
\* caller of this operator)
RECURSIVE count_equals(_, _)
count_equals(path, prefix) ==
    IF prefix = <<>> \/ path.offset >= NibbleCount(path.data) THEN 0
    ELSE IF NibbleAt(path.data, path.offset) # Head(prefix) THEN 0
    ELSE 1 + count_equals([path EXCEPT !.offset = @ + 1], Tail(prefix))

\* common nibbles of two byte strings from nibble `from` on
RECURSIVE CommonFrom(_, _, _)
CommonFrom(a, b, from) ==
    IF from >= NibbleCount(a) \/ from >= NibbleCount(b) THEN 0
    ELSE IF NibbleAt(a, from) # NibbleAt(b, from) THEN 0
    ELSE 1 + CommonFrom(a, b, from + 1)

\* nibbles from..to-1 of a byte string, clipped at its end
RECURSIVE NibblesOf(_, _, _)
NibblesOf(data, from, to) ==
    IF from >= to \/ from >= NibbleCount(data) THEN <<>>
    ELSE <<NibbleAt(data, from)>> \o NibblesOf(data, from + 1, to)

----------------------------------------------------------------------------
(* Nodes of the arena trie *)

NoChoices == [i \in 0..15 |-> INVALID_REF]

is_valid(ref) == ref # INVALID_REF

\* bytes of a digest
HashLen == 32

\* hash cache of a new node: len = 0 means dirty, the buffer is zeroed
DirtyHash == [len |-> 0, buf |-> [i \in 1..HashLen |-> 0]]

LeafNodeNew(value_ref) ==
    [type |-> "leaf", value_ref |-> value_ref, choices |-> NoChoices,
     prefix |-> <<>>, child_ref |-> INVALID_REF, hash |-> DirtyHash]

BranchNodeNew(choices) ==
    [type |-> "branch", value_ref |-> INVALID_REF, choices |-> choices,
     prefix |-> <<>>, child_ref |-> INVALID_REF, hash |-> DirtyHash]

ExtensionNodeNew(prefix, child_ref) ==
    [type |-> "extension", value_ref |-> INVALID_REF, choices |-> NoChoices,
     prefix |-> prefix, child_ref |-> child_ref, hash |-> DirtyHash]

update_value_ref(node, new_value_ref) == [node EXCEPT !.value_ref = new_value_ref]

mark_as_dirty(node) == [node EXCEPT !.hash.len = 0]

----------------------------------------------------------------------------
(* get *)

\* result of a lookup step: the call panicked, or returned an option
Returned(opt) == [panic |-> FALSE, res |-> opt]

RECURSIVE NodeGet(_, _, _, _, _)

\* LeafNode::get
LeafNodeGet(self, vals, path) ==
    IF ~SlabContains(vals, self.value_ref) THEN Panicked(Returned(None))
    ELSE LET entry == SlabEntry(vals, self.value_ref).item
             eq == cmp_rest(path, entry.path)
         IN  IF eq = "panic" THEN Panicked(Returned(None))
             ELSE IF eq = "true" THEN Returned(Some(entry.value))
             ELSE Returned(None)

\* BranchNode::get: path.next().and_then(child lookup).or_else(own value)
BranchNodeGet(ns, vals, self, path, fuel) ==
    LET choice == peek(path)
        child_ref == self.choices[choice]
        viaChild ==
            IF choice = -1 THEN Returned(None)
            ELSE IF is_valid(child_ref)
                 THEN IF ~SlabContains(ns, child_ref) THEN Panicked(Returned(None))
                      ELSE NodeGet(ns, vals, SlabEntry(ns, child_ref).item,
                                   offset_add(path, 1), fuel)
                 ELSE Returned(None)
    IN  IF viaChild.panic THEN Panicked(Returned(None))
        ELSE IF viaChild.res.some THEN viaChild
        ELSE IF is_valid(self.value_ref)
        THEN IF ~SlabContains(vals, self.value_ref) THEN Panicked(Returned(None))
             ELSE Returned(Some(SlabEntry(vals, self.value_ref).item.value))
        ELSE Returned(None)

\* ExtensionNode::get
ExtensionNodeGet(ns, vals, self, path, fuel) ==
    LET prefix_match_len == count_equals(path, self.prefix)
    IN  IF prefix_match_len = Len(self.prefix)
        THEN IF ~SlabContains(ns, self.child_ref) THEN Panicked(Returned(None))
             ELSE NodeGet(ns, vals, SlabEntry(ns, self.child_ref).item,
                          offset_add(path, prefix_match_len), fuel)
        ELSE Returned(None)

\* Node::get: dispatch on the variant
NodeGet(ns, vals, node, path, fuel) ==
    IF fuel = 0 THEN Panicked(Returned(None))
    ELSE IF node.type = "leaf" THEN LeafNodeGet(node, vals, path)
    ELSE IF node.type = "branch" THEN BranchNodeGet(ns, vals, node, path, fuel - 1)
    ELSE ExtensionNodeGet(ns, vals, node, path, fuel - 1)

\* PatriciaMerkleTree::get
TreeGet(root, ns, vals, path) ==
    IF ~SlabContains(ns, root) THEN Returned(None)
    ELSE NodeGet(ns, vals, SlabEntry(ns, root).item, NibbleSliceNew(path), MaxDepth)

----------------------------------------------------------------------------
(* insert *)

\* InsertAction
InsertAction(kind, ref) == [kind |-> kind, ref |-> ref]

\* InsertAction::quantize_self: InsertSelf becomes Insert(self_ref)
quantize_self(action, self_ref) ==
    IF action.kind = "InsertSelf" THEN InsertAction("Insert", self_ref) ELSE action

\* result of a node's insert: a panic, or the new node, the action and
\* the node arena after the call
Inserted(node, action, ns) ==
    [panic |-> FALSE, node |-> node, action |-> action, nodes |-> ns]

InsertPanicked(ns) ==
    Panicked(Inserted(LeafNodeNew(INVALID_REF), InsertAction("InsertSelf", INVALID_REF), ns))

RECURSIVE NodeInsert(_, _, _, _)

\* LeafNode::insert, the branch built when the two paths differ
LeafNodeSplit(self, ns, path, value_path, offset) ==
    LET path_branch == offset_add(path, offset)
        absolute_offset == path_branch.offset
        old_has == absolute_offset < NibbleCount(value_path)
        new_has == peek(path_branch) # -1
    IN  IF offset = 2 * Len(path.data)
        THEN \* the new path ends here: the old leaf becomes a child
             IF ~old_has THEN InsertPanicked(ns)
             ELSE LET a == SlabInsert(ns, self)
                  IN  Inserted(BranchNodeNew([NoChoices EXCEPT
                                   ![NibbleAt(value_path, absolute_offset)] = a.key]),
                               InsertAction("InsertSelf", INVALID_REF), a.slab)
        ELSE IF offset = 2 * Len(value_path)
        THEN \* the old path ends here: its value moves into the branch
             LET c == SlabInsert(ns, LeafNodeNew(INVALID_REF))
             IN  IF ~new_has THEN InsertPanicked(ns)
                 ELSE Inserted(update_value_ref(
                                   BranchNodeNew([NoChoices EXCEPT ![peek(path_branch)] = c.key]),
                                   self.value_ref),
                               InsertAction("Insert", c.key), c.slab)
        ELSE LET c == SlabInsert(ns, LeafNodeNew(INVALID_REF))
                 a == SlabInsert(c.slab, self)
             IN  IF ~old_has \/ ~new_has THEN InsertPanicked(ns)
                 ELSE Inserted(BranchNodeNew([NoChoices EXCEPT
                                   ![NibbleAt(value_path, absolute_offset)] = a.key,
                                   ![peek(path_branch)] = c.key]),
                               InsertAction("Insert", c.key), a.slab)

\* LeafNode::insert
LeafNodeInsert(self0, ns, vals, path) ==
    LET self == mark_as_dirty(self0)
    IN  IF ~SlabContains(vals, self.value_ref) THEN InsertPanicked(ns)
        ELSE LET value_path == SlabEntry(vals, self.value_ref).item.path
                 eq == cmp_rest(path, value_path)
             IN  IF eq = "panic" THEN InsertPanicked(ns)
                 ELSE IF eq = "true" THEN Inserted(self, InsertAction("Replace", self.value_ref), ns)
                 ELSE LET offset == CommonFrom(value_path, path.data, path.offset)
                          b == LeafNodeSplit(self, ns, path, value_path, offset)
                      IN  IF b.panic THEN b
                          ELSE IF offset # 0
                          THEN LET r == SlabInsert(b.nodes, b.node)
                               IN  Inserted(ExtensionNodeNew(
                                                NibbleVecNibbles(split_to_vec(path, offset)), r.key),
                                            quantize_self(b.action, r.key), r.slab)
                          ELSE b

\* BranchNode::insert
BranchNodeInsert(self0, ns, vals, path) ==
    LET self == mark_as_dirty(self0)
        choice == peek(path)
    IN  IF choice = -1
        THEN Inserted(self,
                      IF is_valid(self.value_ref) THEN InsertAction("Replace", self.value_ref)
                      ELSE InsertAction("InsertSelf", INVALID_REF), ns)
        ELSE IF ~is_valid(self.choices[choice])
        THEN LET c == SlabInsert(ns, LeafNodeNew(INVALID_REF))
             IN  Inserted([self EXCEPT !.choices[choice] = c.key], InsertAction("Insert", c.key), c.slab)
        ELSE IF ~SlabContains(ns, self.choices[choice]) THEN InsertPanicked(ns)
        ELSE LET child_node == SlabEntry(ns, self.choices[choice]).item
                 r == NodeInsert(child_node, SlabRemove(ns, self.choices[choice]), vals,
                                 offset_add(path, 1))
             IN  IF r.panic THEN r
                 ELSE LET c == SlabInsert(r.nodes, r.node)
                      IN  Inserted([self EXCEPT !.choices[choice] = c.key],
                                   quantize_self(r.action, c.key), c.slab)

\* the rest of a prefix after its first n nibbles
SkipNibbles(prefix, n) == SubSeq(prefix, n + 1, Len(prefix))

\* ExtensionNode::insert, the prefix does not match entirely
ExtensionNodeSplit(self, ns, vals, path_iter, prefix_match_len, prefix_fits) ==
    IF prefix_fits /\ prefix_match_len > 0
    THEN \* the new path ends inside the prefix
         LET prefix == NibblesOf(path_iter.data, path_iter.offset, NibbleCount(path_iter.data))
             choice_selector == self.prefix[Len(prefix) + 1]
             c == SlabInsert(ns, [self EXCEPT !.prefix = SkipNibbles(@, Len(prefix) + 1)])
             b == SlabInsert(c.slab, BranchNodeNew([NoChoices EXCEPT ![choice_selector] = c.key]))
         IN  Inserted(ExtensionNodeNew(prefix, b.key), InsertAction("Insert", b.key), b.slab)
    ELSE IF prefix_match_len = 0
    THEN \* the first nibble differs
         LET index == self.prefix[1]
             s == SlabInsert(ns, [self EXCEPT !.prefix = Tail(@)])
             new_index == peek(path_iter)
             c == SlabInsert(s.slab, LeafNodeNew(vacant_key(vals)))
         IN  IF new_index = -1 THEN InsertPanicked(ns)
             ELSE Inserted(BranchNodeNew([NoChoices EXCEPT ![index] = s.key,
                                                          ![new_index] = c.key]),
                           InsertAction("Insert", c.key), c.slab)
    ELSE \* a later nibble differs
         LET prefix == NibblesOf(path_iter.data, path_iter.offset,
                                 path_iter.offset + prefix_match_len)
             rest == offset_add(path_iter, Len(prefix))
             index == self.prefix[prefix_match_len + 1]
             s == SlabInsert(ns, [self EXCEPT !.prefix = SkipNibbles(@, prefix_match_len + 1)])
             new_index == peek(rest)
             c == SlabInsert(s.slab, LeafNodeNew(vacant_key(vals)))
             choices == [[NoChoices EXCEPT ![index] = s.key] EXCEPT ![new_index] = c.key]
             b == SlabInsert(c.slab, BranchNodeNew(choices))
         IN  IF new_index = -1 THEN InsertPanicked(ns)
             ELSE Inserted(ExtensionNodeNew(prefix, b.key), InsertAction("Insert", b.key), b.slab)

\* ExtensionNode::insert
ExtensionNodeInsert(self0, ns, vals, path) ==
    LET prefix_match_len == count_equals(path, self0.prefix)
        path_iter == offset_add(path, prefix_match_len)
        prefix_fits == peek(path_iter) = -1
        self == mark_as_dirty(self0)
    IN  IF prefix_match_len = Len(self.prefix)
        THEN IF ~SlabContains(ns, self.child_ref) THEN InsertPanicked(ns)
             ELSE LET child == SlabEntry(ns, self.child_ref).item
                      r == NodeInsert(child, SlabRemove(ns, self.child_ref), vals, path_iter)
                  IN  IF r.panic THEN r
                      ELSE LET c == SlabInsert(r.nodes, r.node)
                           IN  Inserted([self EXCEPT !.child_ref = c.key],
                                        quantize_self(r.action, c.key), c.slab)
        ELSE ExtensionNodeSplit(self, ns, vals, path_iter, prefix_match_len, prefix_fits)

\* Node::insert: dispatch on the variant
NodeInsert(node, ns, vals, path) ==
    IF node.type = "leaf" THEN LeafNodeInsert(node, ns, vals, path)
    ELSE IF node.type = "branch" THEN BranchNodeInsert(node, ns, vals, path)
    ELSE ExtensionNodeInsert(node, ns, vals, path)

\* result of a facade insert
TreeState(root, ns, vals) == [root_ref |-> root, nodes |-> ns, values |-> vals]

TreeReturned(opt, root, ns, vals) ==
    [panic |-> FALSE, ret |-> opt, tree |-> TreeState(root, ns, vals)]

\* PatriciaMerkleTree::insert, the action returned by the root is carried out
TreeInsertResolve(root, ns, vals, action, path, value) ==
    IF action.kind = "Insert"
    THEN LET v == SlabInsert(vals, [path |-> path, value |-> value])
         IN  IF ~SlabContains(ns, action.ref) THEN
                 Panicked(TreeReturned(None, INVALID_REF, SlabNew, SlabNew))
             ELSE IF SlabEntry(ns, action.ref).item.type = "extension" THEN
                      Panicked(TreeReturned(None, INVALID_REF, SlabNew, SlabNew))
             ELSE TreeReturned(None, root,
                      [ns EXCEPT !.entries[action.ref + 1].item = update_value_ref(@, v.key)],
                      v.slab)
    ELSE IF action.kind = "Replace"
    THEN IF ~SlabContains(vals, action.ref) THEN
             Panicked(TreeReturned(None, INVALID_REF, SlabNew, SlabNew))
         ELSE TreeReturned(Some(SlabEntry(vals, action.ref).item.value), root, ns,
                  [vals EXCEPT !.entries[action.ref + 1].item.value = value])
    ELSE Panicked(TreeReturned(None, INVALID_REF, SlabNew, SlabNew))

\* PatriciaMerkleTree::insert
TreeInsert(root, ns, vals, path, value) ==
    IF SlabContains(ns, root)
    THEN LET r == NodeInsert(SlabEntry(ns, root).item, SlabRemove(ns, root), vals,
                             NibbleSliceNew(path))
         IN  IF r.panic THEN Panicked(TreeReturned(None, INVALID_REF, SlabNew, SlabNew))
             ELSE LET n == SlabInsert(r.nodes, r.node)
                  IN  TreeInsertResolve(n.key, n.slab, vals,
                                        quantize_self(r.action, n.key), path, value)
    ELSE LET v == SlabInsert(vals, [path |-> path, value |-> value])
             n == SlabInsert(ns, LeafNodeNew(v.key))
         IN  TreeReturned(None, n.key, n.slab, v.slab)

\* PatriciaMerkleTree::len
TreeLen(vals) == SlabLen(vals)

\* PatriciaMerkleTree::is_empty
TreeIsEmpty(ns) == SlabLen(ns) = 0

----------------------------------------------------------------------------
(* remove of the arena trie *)

\* no node: what a remove returns for a subtree that is gone
NoNode == [LeafNodeNew(INVALID_REF) EXCEPT !.type = "none"]

\* result of a node's remove: a panic, or the node left (NoNode for none),
\* the value removed and both arenas after the call
Removed(node, old, ns, vals) ==
    [panic |-> FALSE, node |-> node, old |-> old, nodes |-> ns, values |-> vals]

RECURSIVE NodeRemove(_, _, _, _, _)

\* LeafNode::remove: the leaf goes, and its value is freed, when the key
\* it stores is the key removed
LeafNodeRemove(self, ns, vals, path) ==
    IF ~SlabContains(vals, self.value_ref) THEN Panicked(Removed(NoNode, None, SlabNew, SlabNew))
    ELSE LET entry == SlabEntry(vals, self.value_ref).item
         IN  IF entry.path = path.data
             THEN Removed(NoNode, Some(entry.value), ns, SlabRemove(vals, self.value_ref))
             ELSE Removed(self, None, ns, vals)

\* slots of an arena branch that hold a child
ValidChoices(self) == { i \in 0..15 : is_valid(self.choices[i]) }

\* BranchNode::remove, the count of the exits left: the branch stays with
\* two or more, a sole child is handed up (an extension with the nibble
\* of its slot put before its prefix), a sole value becomes a leaf
BranchNodeRenormalize(self, old, ns, vals) ==
    LET exits == Cardinality(ValidChoices(self)) + (IF is_valid(self.value_ref) THEN 1 ELSE 0)
    IN  IF exits >= 2 THEN Removed(self, old, ns, vals)
        ELSE IF ValidChoices(self) # {}
        THEN LET i == CHOOSE c \in ValidChoices(self) : TRUE
                 child_ref == self.choices[i]
             IN  IF ~SlabContains(ns, child_ref) THEN
                     Panicked(Removed(NoNode, None, SlabNew, SlabNew))
                 ELSE LET child == SlabEntry(ns, child_ref).item
                      IN  Removed(IF child.type = "extension"
                                  THEN mark_as_dirty([child EXCEPT !.prefix = <<i>> \o @])
                                  ELSE child,
                                  old, SlabRemove(ns, child_ref), vals)
        ELSE IF is_valid(self.value_ref) THEN Removed(LeafNodeNew(self.value_ref), old, ns, vals)
        ELSE Removed(NoNode, old, ns, vals)

\* BranchNode::remove
BranchNodeRemove(self, ns, vals, path, fuel) ==
    LET choice == peek(path)
    IN  IF choice = -1
        THEN IF ~is_valid(self.value_ref) THEN Removed(self, None, ns, vals)
             ELSE IF ~SlabContains(vals, self.value_ref) THEN
                      Panicked(Removed(NoNode, None, SlabNew, SlabNew))
             ELSE LET entry == SlabEntry(vals, self.value_ref).item
                  IN  IF entry.path # path.data THEN Removed(self, None, ns, vals)
                      ELSE BranchNodeRenormalize(
                               mark_as_dirty([self EXCEPT !.value_ref = INVALID_REF]),
                               Some(entry.value), ns, SlabRemove(vals, self.value_ref))
        ELSE IF ~is_valid(self.choices[choice]) THEN Removed(self, None, ns, vals)
        ELSE IF ~SlabContains(ns, self.choices[choice]) THEN
                 Panicked(Removed(NoNode, None, SlabNew, SlabNew))
        ELSE LET r == NodeRemove(SlabEntry(ns, self.choices[choice]).item,
                                 SlabRemove(ns, self.choices[choice]), vals,
                                 offset_add(path, 1), fuel)
                 n == SlabInsert(r.nodes, r.node)
                 touched == IF r.old.some THEN mark_as_dirty(self) ELSE self
             IN  IF r.panic THEN Panicked(Removed(NoNode, None, SlabNew, SlabNew))
                 ELSE IF r.node.type = "none"
                 THEN BranchNodeRenormalize([touched EXCEPT !.choices[choice] = INVALID_REF],
                                            r.old, r.nodes, r.values)
                 ELSE BranchNodeRenormalize([touched EXCEPT !.choices[choice] = n.key],
                                            r.old, n.slab, r.values)

\* ExtensionNode::remove: whatever node the child leaves is put back into
\* the arena as the child
ExtensionNodeRemove(self, ns, vals, path, fuel) ==
    IF count_equals(path, self.prefix) = Len(self.prefix)
    THEN IF ~SlabContains(ns, self.child_ref) THEN Panicked(Removed(NoNode, None, SlabNew, SlabNew))
         ELSE LET r == NodeRemove(SlabEntry(ns, self.child_ref).item,
                                  SlabRemove(ns, self.child_ref), vals,
                                  offset_add(path, Len(self.prefix)), fuel)
                  n == SlabInsert(r.nodes, r.node)
                  touched == IF r.old.some THEN mark_as_dirty(self) ELSE self
              IN  IF r.panic THEN Panicked(Removed(NoNode, None, SlabNew, SlabNew))
                  ELSE IF r.node.type = "none" THEN Removed(NoNode, r.old, r.nodes, r.values)
                  ELSE Removed([touched EXCEPT !.child_ref = n.key], r.old, n.slab, r.values)
    ELSE Removed(self, None, ns, vals)

\* Node::remove: dispatch on the variant
NodeRemove(node, ns, vals, path, fuel) ==
    IF fuel = 0 THEN Panicked(Removed(NoNode, None, SlabNew, SlabNew))
    ELSE IF node.type = "leaf" THEN LeafNodeRemove(node, ns, vals, path)
    ELSE IF node.type = "branch" THEN BranchNodeRemove(node, ns, vals, path, fuel - 1)
    ELSE ExtensionNodeRemove(node, ns, vals, path, fuel - 1)

\* PatriciaMerkleTree::remove: the root is taken out and put back unless
\* nothing is left of it
TreeRemove(root, ns, vals, path) ==
    IF ~SlabContains(ns, root) THEN TreeReturned(None, root, ns, vals)
    ELSE LET r == NodeRemove(SlabEntry(ns, root).item, SlabRemove(ns, root), vals,
                             NibbleSliceNew(path), MaxDepth)
             n == SlabInsert(r.nodes, r.node)
         IN  IF r.panic THEN Panicked(TreeReturned(None, INVALID_REF, SlabNew, SlabNew))
             ELSE IF r.node.type = "none"
             THEN TreeReturned(r.old, INVALID_REF, r.nodes, r.values)
             ELSE TreeReturned(r.old, n.key, n.slab, r.values)

----------------------------------------------------------------------------
(* The boxed trie: node.rs, node/leaf.rs, node/branch.rs, node/extension.rs *)

\* bytes of a boxed-trie key (the sources fix 32; the model scales it down)
KeyBytes == 2

\* leading bytes of a boxed-trie key; the rest of the key is zero
BKey(stem) == [i \in 1..KeyBytes |-> IF i <= Len(stem) THEN stem[i] ELSE 0]

BKeys == { BKey(stem) : stem \in { <<0, 0>>, <<1, 0>>, <<1, 1>>, <<16, 0>>, <<32, 0>> } }

\* most keys the boxed trie is given to hold at a time
MaxLenB == 3

\* an insert is made while the boxed trie has fewer leaves than this
MaxLeavesB == 3

Nil == [type |-> "none"]

NilChoices == [i \in 0..15 |-> Nil]

BLeaf(key, value) == [type |-> "leaf", key |-> key, value |-> value]

BBranch(choices) == [type |-> "branch", choices |-> choices]

BExtension(prefix, child) == [type |-> "extension", prefix |-> prefix, child |-> child]

\* KeySegmentIterator::nth: nibble n of a key, -1 (a panic) out of range
KeyNth(key, n) == IF n < 2 * KeyBytes THEN NibbleAt(key, n) ELSE -1

\* index (0-based, relative to `offset`) of the first nibble where the key
\* from `offset` on differs from `prefix`, -1 when the zip ends first
RECURSIVE FirstMismatch(_, _, _, _)
FirstMismatch(key, offset, prefix, idx) ==
    IF offset + idx >= 2 * KeyBytes \/ idx >= Len(prefix) THEN -1
    ELSE IF NibbleAt(key, offset + idx) # prefix[idx + 1] THEN idx
    ELSE FirstMismatch(key, offset, prefix, idx + 1)

RECURSIVE BNodeGet(_, _, _)

\* BranchNode::get
BBranchGet(self, key, offset) ==
    IF KeyNth(key, offset) = -1 THEN Panicked(Returned(None))
    ELSE LET child == self.choices[KeyNth(key, offset)]
         IN  IF child = Nil THEN Returned(None) ELSE BNodeGet(child, key, offset + 1)

\* Node::get
BNodeGet(node, key, offset) ==
    IF node.type = "branch" THEN BBranchGet(node, key, offset)
    ELSE IF node.type = "extension"
    THEN IF FirstMismatch(key, offset, node.prefix, 0) = -1
         THEN BBranchGet(node.child, key, offset + Len(node.prefix))
         ELSE Returned(None)
    ELSE IF node.key = key THEN Returned(Some(node.value)) ELSE Returned(None)

\* result of a boxed insert or remove: a panic, or the new node (Nil for
\* no node), the old value and the slot nibble a collapsed branch signals
BResult(node, old) == [panic |-> FALSE, node |-> node, old |-> old, index |-> -1]

RECURSIVE BNodeInsert(_, _, _, _)

\* LeafNode::insert
BLeafInsert(self, key, value, current_key_offset) ==
    LET prefix_len == FirstMismatch(key, current_key_offset,
                          NibblesOf(self.key, current_key_offset, 2 * KeyBytes), 0)
    IN  IF prefix_len # -1
        THEN LET value_b == NibbleAt(key, current_key_offset + prefix_len)
                 value_a == NibbleAt(self.key, current_key_offset + prefix_len)
                 branch_node == BBranch([NilChoices EXCEPT ![value_a] = self,
                                                           ![value_b] = BLeaf(key, value)])
             IN  IF prefix_len = 0 THEN BResult(branch_node, None)
                 ELSE BResult(BExtension(NibblesOf(key, 0, prefix_len), branch_node), None)
        ELSE BResult([self EXCEPT !.value = value], Some(self.value))

\* BranchNode::insert
BBranchInsert(self, key, value, current_key_offset) ==
    LET n == KeyNth(key, current_key_offset)
    IN  IF n = -1 THEN Panicked(BResult(Nil, None))
        ELSE IF self.choices[n] = Nil
        THEN BResult([self EXCEPT !.choices[n] = BLeaf(key, value)], None)
        ELSE LET r == BNodeInsert(self.choices[n], key, value, current_key_offset + 1)
             IN  IF r.panic THEN r
                 ELSE BResult([self EXCEPT !.choices[n] = r.node], r.old)

\* ExtensionNode::insert
BExtensionInsert(self, key, value, current_key_offset) ==
    LET prefix_len == FirstMismatch(key, current_key_offset, self.prefix, 0)
    IN  IF prefix_len # -1
        THEN LET value_b == NibbleAt(key, current_key_offset + prefix_len)
                 value_a == self.prefix[prefix_len + 1]
                 leaf == BLeaf(key, value)
             IN  IF prefix_len = 0
                 THEN BResult(BBranch([NilChoices EXCEPT
                                  ![value_a] = BExtension(Tail(self.prefix), self.child),
                                  ![value_b] = leaf]), None)
                 ELSE LET old_side ==
                              IF prefix_len # Len(self.prefix) - 1
                              THEN BExtension(SkipNibbles(self.prefix, prefix_len + 1), self.child)
                              ELSE self.child
                      IN  BResult(BExtension(SubSeq(self.prefix, 1, prefix_len),
                                      BBranch([NilChoices EXCEPT ![value_a] = old_side,
                                                                 ![value_b] = leaf])), None)
        ELSE LET r == BBranchInsert(self.child, key, value,
                                    current_key_offset + Len(self.prefix))
             IN  IF r.panic THEN r
                 ELSE BResult([self EXCEPT !.child = r.node], r.old)

\* Node::insert
BNodeInsert(node, key, value, current_key_offset) ==
    IF node.type = "branch" THEN BBranchInsert(node, key, value, current_key_offset)
    ELSE IF node.type = "extension" THEN BExtensionInsert(node, key, value, current_key_offset)
    ELSE BLeafInsert(node, key, value, current_key_offset)

RECURSIVE BNodeRemove(_, _, _)

\* LeafNode::remove
BLeafRemove(self, key) ==
    IF key = self.key THEN BResult(Nil, Some(self.value)) ELSE BResult(self, None)

\* slots of a branch that hold a child
Children(choices) == { i \in 0..15 : choices[i] # Nil }

\* BranchNode::remove that keeps a branch left with a single child
BBranchRemoveKeepsBranch(self, key, current_key_offset) ==
    LET index == KeyNth(key, current_key_offset)
    IN  IF index = -1 THEN Panicked(BResult(Nil, None))
        ELSE IF self.choices[index] = Nil THEN BResult(self, None)
        ELSE LET r == BNodeRemove(self.choices[index], key, current_key_offset + 1)
                 choices == [self.choices EXCEPT ![index] = r.node]
                 left == Children(choices)
             IN  IF r.panic THEN r
                 ELSE IF Cardinality(left) >= 1 THEN BResult(BBranch(choices), r.old)
                 ELSE BResult(Nil, r.old)

\* BranchNode::remove; index is the slot of the sole child handed up when
\* the branch collapses, -1 otherwise
BBranchRemove(self, key, current_key_offset) ==
    LET index == KeyNth(key, current_key_offset)
    IN  IF index = -1 THEN Panicked(BResult(Nil, None))
        ELSE IF self.choices[index] = Nil THEN BResult(self, None)
        ELSE LET r == BNodeRemove(self.choices[index], key, current_key_offset + 1)
                 choices == [self.choices EXCEPT ![index] = r.node]
                 left == Children(choices)
             IN  IF r.panic THEN r
                 ELSE IF Cardinality(left) >= 2 THEN BResult(BBranch(choices), r.old)
                 ELSE IF Cardinality(left) = 1
                 THEN LET i == CHOOSE i \in left : TRUE
                      IN  [BResult(choices[i], r.old) EXCEPT !.index = i]
                 ELSE BResult(Nil, r.old)

\* ExtensionNode::remove
BExtensionRemove(self, key, current_key_offset) ==
    LET r == BBranchRemove(self.child, key, current_key_offset + Len(self.prefix))
    IN  IF r.panic THEN r
        ELSE IF r.node = Nil THEN BResult(Nil, r.old)
        ELSE IF r.node.type = "branch" THEN BResult([self EXCEPT !.child = r.node], r.old)
        ELSE IF r.node.type = "extension"
        THEN IF r.index = -1 THEN Panicked(BResult(Nil, None))
             ELSE BResult(BExtension(self.prefix \o <<r.index>> \o r.node.prefix,
                                     r.node.child), r.old)
        ELSE BResult(r.node, r.old)

\* Node::remove: the slot nibble a collapsed branch signals is dropped
BNodeRemove(node, key, current_key_offset) ==
    IF node.type = "branch"
    THEN LET r == BBranchRemove(node, key, current_key_offset)
         IN  IF r.panic THEN r ELSE BResult(r.node, r.old)
    ELSE IF node.type = "extension" THEN BExtensionRemove(node, key, current_key_offset)
    ELSE BLeafRemove(node, key)

\* the facade of the boxed trie: get
BTreeGet(root, key) == IF root = Nil THEN Returned(None) ELSE BNodeGet(root, key, 0)

\* the facade of the boxed trie: insert
BTreeInsert(root, key, value) ==
    IF root = Nil THEN BResult(BLeaf(key, value), None) ELSE BNodeInsert(root, key, value, 0)

\* the facade of the boxed trie: remove
BTreeRemove(root, key) ==
    IF root = Nil THEN BResult(Nil, None) ELSE BNodeRemove(root, key, 0)

RECURSIVE BNodeDrainFilter(_, _, _, _)

\* result of a boxed drain_filter: the node left (Nil for no node), the
\* slot nibble a collapsed branch signals and the items drained so far
BDrained(node, index, drained_items) ==
    [node |-> node, index |-> index, drained |-> drained_items]

\* LeafNode::drain_filter; `filter` is the set of keys the filter accepts
BLeafDrainFilter(self, filter, drained_items) ==
    IF self.key \in filter
    THEN BDrained(Nil, -1, Append(drained_items, <<self.key, self.value>>))
    ELSE BDrained(self, -1, drained_items)

\* the three cases of SingleChild
SingleChild(kind, index) == [kind |-> kind, index |-> index]

\* BranchNode::drain_filter, the loop over the slots from `index` on
RECURSIVE BBranchDrainLoop(_, _, _, _, _, _)
BBranchDrainLoop(choices, single_child, filter, drained_items, current_key_offset, index) ==
    IF index > 15
    THEN [choices |-> choices, single_child |-> single_child, drained |-> drained_items]
    ELSE IF choices[index] = Nil
    THEN BBranchDrainLoop(choices, single_child, filter, drained_items,
                          current_key_offset, index + 1)
    ELSE LET r == BNodeDrainFilter(choices[index], filter, drained_items,
                                   current_key_offset + 1)
         IN  BBranchDrainLoop([choices EXCEPT ![index] = r.node],
                              IF r.node = Nil THEN single_child
                              ELSE IF single_child.kind = "NoChildren" THEN SingleChild("Single", index)
                              ELSE SingleChild("Multiple", -1),
                              filter, r.drained, current_key_offset, index + 1)

\* BranchNode::drain_filter
BBranchDrainFilter(self, filter, drained_items, current_key_offset) ==
    LET l == BBranchDrainLoop(self.choices, SingleChild("NoChildren", -1), filter, drained_items,
                              current_key_offset, 0)
    IN  IF l.single_child.kind = "NoChildren" THEN BDrained(Nil, -1, l.drained)
        ELSE IF l.single_child.kind = "Single"
        THEN BDrained(l.choices[l.single_child.index], l.single_child.index, l.drained)
        ELSE BDrained(BBranch(l.choices), -1, l.drained)

\* ExtensionNode::drain_filter
BExtensionDrainFilter(self, filter, drained_items, current_key_offset) ==
    LET r == BBranchDrainFilter(self.child, filter, drained_items,
                                current_key_offset + Len(self.prefix))
    IN  IF r.node = Nil THEN BDrained(Nil, -1, r.drained)
        ELSE IF r.node.type = "branch"
        THEN BDrained([self EXCEPT !.child = r.node], -1, r.drained)
        ELSE IF r.node.type = "extension"
        THEN BDrained(BExtension(self.prefix \o <<r.index>> \o r.node.prefix, r.node.child),
                      -1, r.drained)
        ELSE BDrained(r.node, -1, r.drained)

\* Node::drain_filter: the slot nibble a collapsed branch signals is dropped
BNodeDrainFilter(node, filter, drained_items, current_key_offset) ==
    IF node.type = "branch"
    THEN LET r == BBranchDrainFilter(node, filter, drained_items, current_key_offset)
         IN  BDrained(r.node, -1, r.drained)
    ELSE IF node.type = "extension"
    THEN BExtensionDrainFilter(node, filter, drained_items, current_key_offset)
    ELSE BLeafDrainFilter(node, filter, drained_items)

\* the facade of the boxed trie: drain_filter
BTreeDrainFilter(root, filter) ==
    IF root = Nil THEN BDrained(Nil, -1, <<>>) ELSE BNodeDrainFilter(root, filter, <<>>, 0)

\* most loop rounds a single TreeIterator::next is followed for
MaxIterSteps == 60

\* NodeState of the iterator: a branch and the next slot to visit
NodeState(node, state) == [node |-> node, state |-> state]

\* what one TreeIterator::next leaves: the item returned, whether the
\* tree is still to be taken, the stack, and whether the loop was cut off
IterResult(item, tree, state) ==
    [diverged |-> FALSE, item |-> item, tree |-> tree, state |-> state]

\* TreeIterator::next: the loop, one round per call; the top of the stack
\* is the end of `state`
RECURSIVE TreeIteratorNext(_, _, _, _)
\* next that does not put the branch back on the stack when it returns
\* the leaf of a slot, so the later slots of the branch are never visited
TreeIteratorNextDropsBranch(root, tree, state, fuel) ==
    IF fuel = 0 THEN [diverged |-> TRUE, item |-> None, tree |-> FALSE, state |-> <<>>]
    ELSE IF tree /\ root = Nil THEN IterResult(None, FALSE, state)
    ELSE IF tree /\ root.type = "leaf"
    THEN IterResult(Some(<<root.key, root.value>>), FALSE, state)
    ELSE LET pushed == IF tree
                       THEN Append(state, NodeState(IF root.type = "extension"
                                                    THEN root.child ELSE root, 0))
                       ELSE state
         IN  IF pushed = <<>> THEN IterResult(None, FALSE, pushed)
             ELSE LET last_state == pushed[Len(pushed)]
                      popped == SubSeq(pushed, 1, Len(pushed) - 1)
                  IN  IF last_state.state < 16
                      THEN LET again == Append(popped, NodeState(last_state.node,
                                                                 last_state.state + 1))
                               choice == last_state.node.choices[last_state.state]
                           IN  IF choice = Nil
                               THEN TreeIteratorNext(root, FALSE, again, fuel - 1)
                               ELSE IF choice.type = "leaf"
                               THEN IterResult(Some(<<choice.key, choice.value>>), FALSE, popped)
                               ELSE TreeIteratorNext(root, FALSE,
                                        Append(again, NodeState(IF choice.type = "extension"
                                                                THEN choice.child ELSE choice, 0)),
                                        fuel - 1)
                      ELSE TreeIteratorNext(root, FALSE, popped, fuel - 1)

\* TreeIterator::next
TreeIteratorNext(root, tree, state, fuel) ==
    IF fuel = 0 THEN [diverged |-> TRUE, item |-> None, tree |-> FALSE, state |-> <<>>]
    ELSE IF tree /\ root = Nil THEN IterResult(None, FALSE, state)
    ELSE IF tree /\ root.type = "leaf"
    THEN IterResult(Some(<<root.key, root.value>>), FALSE, state)
    ELSE LET pushed == IF tree
                       THEN Append(state, NodeState(IF root.type = "extension"
                                                    THEN root.child ELSE root, 0))
                       ELSE state
         IN  IF pushed = <<>> THEN IterResult(None, FALSE, pushed)
             ELSE LET last_state == pushed[Len(pushed)]
                      popped == SubSeq(pushed, 1, Len(pushed) - 1)
                  IN  IF last_state.state < 16
                      THEN LET again == Append(popped, NodeState(last_state.node,
                                                                 last_state.state + 1))
                               choice == last_state.node.choices[last_state.state]
                           IN  IF choice = Nil
                               THEN TreeIteratorNext(root, FALSE, again, fuel - 1)
                               ELSE IF choice.type = "leaf"
                               THEN IterResult(Some(<<choice.key, choice.value>>), FALSE, again)
                               ELSE TreeIteratorNext(root, FALSE,
                                        Append(again, NodeState(IF choice.type = "extension"
                                                                THEN choice.child ELSE choice, 0)),
                                        fuel - 1)
                      ELSE TreeIteratorNext(root, FALSE, popped, fuel - 1)

----------------------------------------------------------------------------
(* Hash encoding of the arena trie *)

\* the digest function, a stand-in for Keccak-256: three position-weighted
\* sums of the input spread over HashLen bytes
RECURSIVE DigestSums(_, _, _, _)
DigestSums(bytes, lo, hi, power) ==
    IF lo > hi THEN 0
    ELSE IF lo = hi
    THEN IF power = 0 THEN bytes[lo] + 1
         ELSE IF power = 1 THEN bytes[lo] * lo
         ELSE bytes[lo] * lo * lo
    ELSE LET mid == (lo + hi) \div 2
         IN  DigestSums(bytes, lo, mid, power) + DigestSums(bytes, mid + 1, hi, power)

Digest(bytes) ==
    LET sums == <<DigestSums(bytes, 1, Len(bytes), 0) % 256,
                  DigestSums(bytes, 1, Len(bytes), 1) % 251,
                  DigestSums(bytes, 1, Len(bytes), 2) % 241>>
    IN  [i \in 1..HashLen |-> (sums[1] + i * sums[2] + i * i * sums[3] + 7 * i) % 256]

\* minimal big-endian bytes of a length
RECURSIVE BigEndian(_)
BigEndian(n) == IF n = 0 THEN <<>> ELSE BigEndian(n \div 256) \o <<n % 256>>

\* length of the byte-string item of a payload of `len` bytes that starts
\* with byte `first`
bytes_len(len, first) ==
    IF len = 1 /\ first < 128 THEN 1
    ELSE IF len <= 55 THEN 1 + len
    ELSE 1 + Len(BigEndian(len)) + len

\* byte-string item
write_slice(x) ==
    IF Len(x) = 1 /\ x[1] < 128 THEN x
    ELSE IF Len(x) <= 55 THEN <<128 + Len(x)>> \o x
    ELSE <<183 + Len(BigEndian(Len(x)))>> \o BigEndian(Len(x)) \o x

\* header of a list whose items take n bytes
write_list_header(n) ==
    IF n <= 55 THEN <<192 + n>> ELSE <<247 + Len(BigEndian(n))>> \o BigEndian(n)

\* list item
write_list(payload) == write_list_header(Len(payload)) \o payload

\* nibbles packed two per byte, high nibble first
RECURSIVE PackNibbles(_)
PackNibbles(n) ==
    IF Len(n) < 2 THEN <<>> ELSE <<n[1] * 16 + n[2]>> \o PackNibbles(SubSeq(n, 3, Len(n)))

\* compact path encoding
encode_path(n, is_leaf) ==
    LET flag == (IF is_leaf THEN 32 ELSE 0) + (IF Len(n) % 2 = 1 THEN 16 ELSE 0)
    IN  IF Len(n) % 2 = 1 THEN <<flag + n[1]>> \o PackNibbles(Tail(n))
        ELSE <<flag>> \o PackNibbles(n)

\* DigestBuf::extract_or_finalize: fewer than HashLen bytes are kept as
\* they are, anything longer is replaced by its digest
extract_or_finalize(written, buf) ==
    IF Len(written) < HashLen
    THEN [len |-> Len(written), buf |-> written \o SubSeq(buf, Len(written) + 1, HashLen)]
    ELSE [len |-> HashLen, buf |-> Digest(written)]

\* result of a node's compute_hash: a panic, or the node with its cache,
\* the node arena after the call and the bytes returned
Hashed(node, ns, out) == [panic |-> FALSE, node |-> node, nodes |-> ns, out |-> out]

RECURSIVE NodeComputeHash(_, _, _, _, _)

\* LeafNode::compute_hash
LeafNodeComputeHash(self, ns, vals, key_offset) ==
    IF self.hash.len = 0
    THEN IF ~SlabContains(vals, self.value_ref) THEN
             Panicked(Hashed(LeafNodeNew(INVALID_REF), ns, <<>>))
         ELSE LET entry == SlabEntry(vals, self.value_ref).item
                  key == NibblesOf(entry.path, key_offset, NibbleCount(entry.path))
                  payload == write_slice(encode_path(key, TRUE)) \o write_slice(entry.value)
                  hash == extract_or_finalize(write_list(payload), self.hash.buf)
              IN  Hashed([self EXCEPT !.hash = hash], ns, SubSeq(hash.buf, 1, hash.len))
    ELSE Hashed(self, ns, SubSeq(self.hash.buf, 1, self.hash.len))

\* ExtensionNode::compute_hash: the child is taken out of the arena, and
\* the whole buffer is returned
ExtensionNodeComputeHash(self, ns, vals, key_offset, fuel) ==
    IF self.hash.len = 0
    THEN IF ~SlabContains(ns, self.child_ref) THEN
             Panicked(Hashed(LeafNodeNew(INVALID_REF), ns, <<>>))
         ELSE LET child == SlabEntry(ns, self.child_ref).item
                  c == NodeComputeHash(child, SlabRemove(ns, self.child_ref), vals,
                                       key_offset + Len(self.prefix), fuel)
                  payload == write_slice(encode_path(self.prefix, FALSE)) \o write_slice(c.out)
                  hash == extract_or_finalize(write_list(payload), self.hash.buf)
              IN  IF c.panic THEN Panicked(Hashed(LeafNodeNew(INVALID_REF), ns, <<>>))
                  ELSE Hashed([self EXCEPT !.hash = hash], c.nodes, hash.buf)
    ELSE Hashed(self, ns, self.hash.buf)

\* BranchNode::compute_hash, the items of choices lo..hi in slot order:
\* each child hashes itself where it sits in the arena
RECURSIVE BranchChoices(_, _, _, _, _, _, _)
BranchChoices(self, ns, vals, key_offset, lo, hi, fuel) ==
    IF lo < hi
    THEN LET mid == (lo + hi) \div 2
             left == BranchChoices(self, ns, vals, key_offset, lo, mid, fuel)
         IN  IF left.panic THEN left
             ELSE LET right == BranchChoices(self, left.nodes, vals, key_offset,
                                             mid + 1, hi, fuel)
                  IN  IF right.panic THEN right
                      ELSE [panic |-> FALSE, nodes |-> right.nodes,
                            len |-> left.len + right.len,
                            items |-> left.items \o right.items]
    ELSE LET choice == self.choices[lo]
         IN  IF ~is_valid(choice)
             THEN [panic |-> FALSE, nodes |-> ns, len |-> 1, items |-> <<128>>]
             ELSE IF ~SlabContains(ns, choice)
             THEN [panic |-> TRUE, nodes |-> ns, len |-> 0, items |-> <<>>]
             ELSE LET c == NodeComputeHash(SlabEntry(ns, choice).item, ns, vals,
                                           key_offset + 1, fuel)
                      ns1 == IF SlabContains(c.nodes, choice)
                             THEN [c.nodes EXCEPT !.entries[choice + 1].item = c.node]
                             ELSE c.nodes
                      inline == Len(c.out) < HashLen
                  IN  IF c.panic THEN [panic |-> TRUE, nodes |-> ns, len |-> 0, items |-> <<>>]
                      ELSE [panic |-> FALSE, nodes |-> ns1,
                            len |-> IF inline THEN Len(c.out)
                                    ELSE bytes_len(Len(c.out), c.out[1]),
                            items |-> IF inline THEN c.out ELSE write_slice(c.out)]

\* BranchNode::compute_hash
BranchNodeComputeHash(self, ns, vals, key_offset, fuel) ==
    IF self.hash.len # 0 THEN Hashed(self, ns, SubSeq(self.hash.buf, 1, self.hash.len))
    ELSE LET ch == BranchChoices(self, ns, vals, key_offset, 0, 15, fuel)
             has_value == is_valid(self.value_ref)
             value == IF has_value /\ SlabContains(vals, self.value_ref)
                      THEN SlabEntry(vals, self.value_ref).item.value ELSE <<>>
             children_len == ch.len + (IF has_value
                                       THEN bytes_len(Len(value),
                                                IF Len(value) > 0 THEN value[1] ELSE 0)
                                       ELSE 1)
             written == write_list_header(children_len) \o ch.items \o write_slice(value)
             hash == extract_or_finalize(written, self.hash.buf)
         IN  IF ch.panic \/ (has_value /\ ~SlabContains(vals, self.value_ref))
             THEN Panicked(Hashed(LeafNodeNew(INVALID_REF), ns, <<>>))
             ELSE Hashed([self EXCEPT !.hash = hash], ch.nodes, SubSeq(hash.buf, 1, hash.len))

\* Node::compute_hash: dispatch on the variant
NodeComputeHash(node, ns, vals, key_offset, fuel) ==
    IF fuel = 0 THEN Panicked(Hashed(LeafNodeNew(INVALID_REF), ns, <<>>))
    ELSE IF node.type = "leaf" THEN LeafNodeComputeHash(node, ns, vals, key_offset)
    ELSE IF node.type = "branch"
    THEN BranchNodeComputeHash(node, ns, vals, key_offset, fuel - 1)
    ELSE ExtensionNodeComputeHash(node, ns, vals, key_offset, fuel - 1)

\* compute_hash without the test for an absent root: the digest of no
\* input is returned for an empty trie
TreeComputeHashOfEmpty(root, ns, vals) ==
    IF ~SlabContains(ns, root) THEN TreeReturned(Some(Digest(<<>>)), root, ns, vals)
    ELSE LET h == NodeComputeHash(SlabEntry(ns, root).item, SlabRemove(ns, root), vals, 0,
                                  MaxDepth)
             n == SlabInsert(h.nodes, h.node)
         IN  IF h.panic THEN Panicked(TreeReturned(None, INVALID_REF, SlabNew, SlabNew))
             ELSE TreeReturned(Some(Digest(h.out)), n.key, n.slab, vals)

\* PatriciaMerkleTree::compute_hash: the root is taken out, hashed, its
\* result is hashed once more, and the root is put back
TreeComputeHash(root, ns, vals) ==
    IF ~SlabContains(ns, root) THEN TreeReturned(None, root, ns, vals)
    ELSE LET h == NodeComputeHash(SlabEntry(ns, root).item, SlabRemove(ns, root), vals, 0,
                                  MaxDepth)
             n == SlabInsert(h.nodes, h.node)
         IN  IF h.panic THEN Panicked(TreeReturned(None, INVALID_REF, SlabNew, SlabNew))
             ELSE TreeReturned(Some(Digest(h.out)), n.key, n.slab, vals)

----------------------------------------------------------------------------
(* The tries as state machines *)

\* the last call: its name, its arguments and what it returned
Call(op, key, value, res) == [op |-> op, key |-> key, value |-> value, res |-> res]

\* no iterator over the boxed trie
NoIter == [live |-> FALSE, tree |-> FALSE, state |-> <<>>, out |-> <<>>, nones |-> 0]

\* PatriciaMerkleTree::new, and the empty boxed trie
Init ==
    /\ root_ref = INVALID_REF
    /\ nodes = SlabNew
    /\ values = SlabNew
    /\ model = [k \in Keys |-> None]
    /\ root_node = Nil
    /\ bmodel = [k \in BKeys |-> None]
    /\ iter = NoIter
    /\ nibbles = [op |-> "none"]
    /\ last = Call("new", <<>>, <<>>, None)
    /\ aborted = FALSE

\* a call that panics ends the run
Abort(op, key, value) ==
    /\ aborted' = TRUE
    /\ last' = Call(op, key, value, None)
    /\ UNCHANGED <<arenaVars, boxedVars, otherVars>>

\* insert, while the trie holds fewer than `max` values (or the key is
\* one that was inserted before)
Insert(k, v, max) ==
    /\ ~aborted
    /\ \/ TreeLen(values) < max
       \/ model[k].some /\ TreeLen(values) <= max
    /\ LET r == TreeInsert(root_ref, nodes, values, k, v)
       IN  IF r.panic THEN Abort("insert", k, v)
           ELSE /\ root_ref' = r.tree.root_ref
                /\ nodes' = r.tree.nodes
                /\ values' = r.tree.values
                /\ model' = [model EXCEPT ![k] = Some(v)]
                /\ last' = Call("insert", k, v, r.ret)
                /\ UNCHANGED <<boxedVars, aborted, otherVars>>

Get(k) ==
    /\ ~aborted
    /\ LET r == TreeGet(root_ref, nodes, values, k)
       IN  IF r.panic THEN Abort("get", k, <<>>)
           ELSE /\ last' = Call("get", k, <<>>, r.res)
                /\ UNCHANGED <<arenaVars, boxedVars, aborted, otherVars>>

ComputeHash ==
    /\ ~aborted
    /\ LET r == TreeComputeHash(root_ref, nodes, values)
       IN  IF r.panic THEN Abort("compute_hash", <<>>, <<>>)
           ELSE /\ root_ref' = r.tree.root_ref
                /\ nodes' = r.tree.nodes
                /\ values' = r.tree.values
                /\ last' = Call("compute_hash", <<>>, <<>>, r.ret)
                /\ UNCHANGED <<model, boxedVars, aborted, otherVars>>

\* remove on the arena trie
Remove(k) ==
    /\ ~aborted
    /\ LET r == TreeRemove(root_ref, nodes, values, k)
       IN  IF r.panic THEN Abort("remove", k, <<>>)
           ELSE /\ root_ref' = r.tree.root_ref
                /\ nodes' = r.tree.nodes
                /\ values' = r.tree.values
                /\ model' = [model EXCEPT ![k] = None]
                /\ last' = Call("remove", k, <<>>, r.ret)
                /\ UNCHANGED <<boxedVars, aborted, otherVars>>

\* number of leaves of a boxed node
RECURSIVE BLeafCount(_)
BLeafCount(node) ==
    IF node.type = "none" THEN 0
    ELSE IF node.type = "leaf" THEN 1
    ELSE IF node.type = "extension" THEN BLeafCount(node.child)
    ELSE LET RECURSIVE Sum(_)
             Sum(i) == IF i > 15 THEN 0 ELSE BLeafCount(node.choices[i]) + Sum(i + 1)
         IN  Sum(0)

BInsert(k, v) ==
    /\ ~aborted
    /\ ~iter.live
    /\ Cardinality({ j \in BKeys : bmodel[j].some }) < MaxLenB \/ bmodel[k].some
    /\ BLeafCount(root_node) < MaxLeavesB
    /\ LET r == BTreeInsert(root_node, k, v)
       IN  IF r.panic THEN Abort("insert", k, v)
           ELSE /\ root_node' = r.node
                /\ bmodel' = [bmodel EXCEPT ![k] = Some(v)]
                /\ last' = Call("insert", k, v, r.old)
                /\ UNCHANGED <<arenaVars, aborted, otherVars>>

BGet(k) ==
    /\ ~aborted
    /\ LET r == BTreeGet(root_node, k)
       IN  IF r.panic THEN Abort("get", k, <<>>)
           ELSE /\ last' = Call("get", k, <<>>, r.res)
                /\ UNCHANGED <<arenaVars, boxedVars, aborted, otherVars>>

BRemove(k) ==
    /\ ~aborted
    /\ ~iter.live
    /\ LET r == BTreeRemove(root_node, k)
       IN  IF r.panic THEN Abort("remove", k, <<>>)
           ELSE /\ root_node' = r.node
                /\ bmodel' = [bmodel EXCEPT ![k] = None]
                /\ last' = Call("remove", k, <<>>, r.old)
                /\ UNCHANGED <<arenaVars, aborted, otherVars>>

\* keys in ascending order, byte by byte
RECURSIVE KeyLess(_, _)
KeyLess(a, b) ==
    IF a = <<>> \/ b = <<>> THEN a = <<>> /\ b # <<>>
    ELSE Head(a) < Head(b) \/ (Head(a) = Head(b) /\ KeyLess(Tail(a), Tail(b)))

\* the keys of a set in ascending order
RECURSIVE AscendingKeys(_)
AscendingKeys(S) ==
    IF S = {} THEN <<>>
    ELSE LET m == CHOOSE k \in S : \A j \in S \ {k} : KeyLess(k, j)
         IN  <<m>> \o AscendingKeys(S \ {m})

\* drain_filter with a filter that accepts the keys of `filter`
BDrainFilter(filter) ==
    /\ ~aborted
    /\ ~iter.live
    /\ LET r == BTreeDrainFilter(root_node, filter)
       IN  /\ root_node' = r.node
           /\ bmodel' = [k \in BKeys |-> IF k \in filter THEN None ELSE bmodel[k]]
           /\ last' = Call("drain_filter", AscendingKeys(filter), <<>>, Some(r.drained))
           /\ UNCHANGED <<arenaVars, aborted, otherVars>>

\* most calls of next that return None an iterator is followed for
MaxNones == 2

\* PatriciaMerkleTree::iter: a new iterator; it borrows the trie, which
\* takes no insert and no remove while the iterator lives
BIter ==
    /\ ~aborted
    /\ ~iter.live
    /\ iter' = [live |-> TRUE, tree |-> TRUE, state |-> <<>>, out |-> <<>>, nones |-> 0]
    /\ last' = Call("iter", <<>>, <<>>, None)
    /\ UNCHANGED <<arenaVars, boxedVars, nibbles, aborted>>

\* TreeIterator::next; `out` collects the pairs returned, `nones` counts
\* the calls that returned None
BIterNext ==
    /\ ~aborted
    /\ iter.live
    /\ iter.nones < MaxNones
    /\ LET r == TreeIteratorNext(root_node, iter.tree, iter.state, MaxIterSteps)
       IN  IF r.diverged THEN Abort("next", <<>>, <<>>)
           ELSE /\ iter' = [live |-> TRUE, tree |-> r.tree, state |-> r.state,
                            out |-> IF r.item.some THEN Append(iter.out, r.item.val)
                                    ELSE iter.out,
                            nones |-> IF r.item.some THEN iter.nones ELSE iter.nones + 1]
                /\ last' = Call("next", <<>>, <<>>, r.item)
                /\ UNCHANGED <<arenaVars, boxedVars, nibbles, aborted>>

\* most bytes of the data of a nibble vector or slice given to a nibble
\* operation
MaxVecBytes == 2

\* byte strings of at most n bytes
RECURSIVE ByteStrings(_)
ByteStrings(n) ==
    IF n = 0 THEN { <<>> }
    ELSE ByteStrings(n - 1)
             \cup { Append(d, b) : d \in { e \in ByteStrings(n - 1) : Len(e) = n - 1 },
                                   b \in { 18, 171 } }

\* nibble vectors in each of the four alignment cases
NibbleVecs ==
    { [data |-> d, first_is_half |-> f, last_is_half |-> l] :
          d \in ByteStrings(MaxVecBytes), f \in BOOLEAN, l \in BOOLEAN }

\* a nibble vector and an index to split it at, or a nibble slice at any
\* offset and a nibble vector aligned as the offset
InitNibbles ==
    /\ root_ref = INVALID_REF
    /\ nodes = SlabNew
    /\ values = SlabNew
    /\ model = [k \in Keys |-> None]
    /\ root_node = Nil
    /\ bmodel = [k \in BKeys |-> None]
    /\ iter = NoIter
    /\ \/ nibbles \in { [op |-> "split_extract_at", vec |-> v, index |-> i,
                          called |-> FALSE, ret |-> SplitPanicked] :
                             v \in NibbleVecs, i \in 0..(2 * MaxVecBytes + 1) }
       \/ /\ nibbles \in { [op |-> "skip_prefix", slice |-> [data |-> d, offset |-> o],
                             vec |-> v, called |-> FALSE, ret |-> Panicked(Skipped(FALSE, 0))] :
                                d \in ByteStrings(MaxVecBytes), o \in 0..(2 * MaxVecBytes),
                                v \in NibbleVecs }
          /\ nibbles.slice.offset <= NibbleCount(nibbles.slice.data)
          /\ nibbles.vec.first_is_half = (nibbles.slice.offset % 2 # 0)
    /\ last = Call("new", <<>>, <<>>, None)
    /\ aborted = FALSE

\* NibbleVec::split_extract_at on the vector and index drawn
SplitExtractAt ==
    /\ ~aborted
    /\ nibbles.op = "split_extract_at"
    /\ ~nibbles.called
    /\ LET r == split_extract_at(nibbles.vec, nibbles.index)
       IN  IF r.panic THEN Abort("split_extract_at", <<>>, <<>>)
           ELSE /\ nibbles' = [nibbles EXCEPT !.called = TRUE, !.ret = r]
                /\ last' = Call("split_extract_at", <<>>, <<>>, None)
                /\ UNCHANGED <<arenaVars, boxedVars, iter, aborted>>

\* NibbleSlice::skip_prefix on the slice and vector drawn
SkipPrefix ==
    /\ ~aborted
    /\ nibbles.op = "skip_prefix"
    /\ ~nibbles.called
    /\ LET r == skip_prefix(nibbles.slice, nibbles.vec)
       IN  IF r.panic THEN Abort("skip_prefix", <<>>, <<>>)
           ELSE /\ nibbles' = [nibbles EXCEPT !.called = TRUE, !.ret = r]
                /\ last' = Call("skip_prefix", <<>>, <<>>, None)
                /\ UNCHANGED <<arenaVars, boxedVars, iter, aborted>>

\* the nibble operations, each on the input drawn for it
NextNibbles ==
    \/ SplitExtractAt
    \/ SkipPrefix

SpecNibbles == InitNibbles /\ [][NextNibbles]_vars

\* the arena trie under inserts and lookups
Next ==
    \/ \E k \in Keys, v \in Values : Insert(k, v, MaxLen)
    \/ \E k \in Keys : Get(k)

Spec == Init /\ [][Next]_vars

\* the arena trie under inserts, lookups and hashing
NextHash ==
    \/ \E k \in HKeys, v \in Values : Insert(k, v, MaxLenH)
    \/ \E k \in HKeys : Get(k)
    \/ ComputeHash

SpecHash == Init /\ [][NextHash]_vars

\* the arena trie under inserts and hashing; the values are a short one and
\* one long enough for the encoding of its leaf to reach HashLen bytes
NextRoot ==
    \/ \E k \in HKeys, v \in { <<1>>, [i \in 1..30 |-> 2] } : Insert(k, v, MaxLenH)
    \/ ComputeHash

SpecRoot == Init /\ [][NextRoot]_vars

\* most slots of the node arena an insert is made with
MaxNodes == 4

\* the boxed trie under inserts, lookups and removes
NextBoxed ==
    \/ \E k \in BKeys, v \in Values : BInsert(k, v)
    \/ \E k \in BKeys : BGet(k)
    \/ \E k \in BKeys : BRemove(k)

SpecBoxed == Init /\ [][NextBoxed]_vars

\* the boxed trie under inserts and drain_filter
NextDrain ==
    \/ \E k \in BKeys, v \in Values : BInsert(k, v)
    \/ \E filter \in SUBSET BKeys : BDrainFilter(filter)

SpecDrain == Init /\ [][NextDrain]_vars

\* one of the two tries at a time under inserts and removes: the arena
\* trie while the boxed one is empty, with keys that make a branch with a
\* value over a branch, and while the node arena has not outgrown MaxNodes
\* slots; the boxed trie while the arena is empty, with keys that make a
\* branch under a branch
NextBranches ==
    \/ /\ root_node = Nil
       /\ Len(nodes.entries) <= MaxNodes
       /\ \E k \in { <<0>>, <<0, 0>>, <<0, 1>> }, v \in Values : Insert(k, v, MaxLenH)
    \/ root_node = Nil /\ \E k \in { <<0>>, <<0, 0>>, <<0, 1>> } : Remove(k)
    \/ /\ SlabLen(nodes) = 0
       /\ \E k \in { BKey(<<0, 0>>), BKey(<<1, 0>>), BKey(<<16, 0>>) }, v \in Values : BInsert(k, v)
    \/ /\ SlabLen(nodes) = 0
       /\ \E k \in { BKey(<<0, 0>>), BKey(<<1, 0>>), BKey(<<16, 0>>) } : BRemove(k)

SpecBranches == Init /\ [][NextBranches]_vars

\* the arena trie under inserts and hashing, with room for a branch over
\* an extension
NextDirty ==
    \/ \E k \in { <<0, 0>>, <<0, 1>>, <<16>> } : Insert(k, <<1>>, MaxLenH + 1)
    \/ ComputeHash

SpecDirty == Init /\ [][NextDirty]_vars

\* the boxed trie under inserts and iteration
NextIter ==
    \/ \E k \in BKeys, v \in Values : BInsert(k, v)
    \/ BIter
    \/ BIterNext

SpecIter == Init /\ [][NextIter]_vars

----------------------------------------------------------------------------
(* What a caller can observe of the tries *)

\* the shape of the subtree under a node handle: node variants, extension
\* prefixes, branch slots and the stored pair each value handle names
RECURSIVE Shape(_, _, _, _)
Shape(ns, vals, ref, fuel) ==
    IF ~is_valid(ref) THEN [type |-> "none"]
    ELSE IF fuel = 0 \/ ~SlabContains(ns, ref) THEN [type |-> "dangling"]
    ELSE LET n == SlabEntry(ns, ref).item
             val(r) == IF ~is_valid(r) THEN None
                       ELSE IF SlabContains(vals, r) THEN Some(SlabEntry(vals, r).item)
                       ELSE Some([path |-> <<>>, value |-> <<"dangling">>])
         IN  IF n.type = "leaf" THEN [type |-> "leaf", value |-> val(n.value_ref)]
             ELSE IF n.type = "branch"
             THEN [type |-> "branch", value |-> val(n.value_ref),
                   choices |-> [i \in 0..15 |-> Shape(ns, vals, n.choices[i], fuel - 1)]]
             ELSE [type |-> "extension", prefix |-> n.prefix,
                   child |-> Shape(ns, vals, n.child_ref, fuel - 1)]

TreeShape(t) == Shape(t.nodes, t.values, t.root_ref, MaxDepth)

\* what compute_hash returns for a trie
TreeHash(t) ==
    LET h == TreeComputeHash(t.root_ref, t.nodes, t.values)
    IN  [panic |-> h.panic, ret |-> h.ret]

\* the keys the arena trie was given and the pairs it should hold
StoredKeys == { k \in Keys : model[k].some }

\* the orders in which the keys of a set can be inserted
Orders(S) ==
    { p \in [1..Cardinality(S) -> S] : \A i, j \in 1..Cardinality(S) : i # j => p[i] # p[j] }

\* a new trie after the inserts of the keys of `order`, each with the value
\* `model` has for it, or a panic
RECURSIVE InsertAll(_, _, _)
InsertAll(t, order, i) ==
    IF i > Len(order) THEN [panic |-> FALSE, tree |-> t]
    ELSE LET r == TreeInsert(t.root_ref, t.nodes, t.values, order[i], model[order[i]].val)
         IN  IF r.panic THEN [panic |-> TRUE, tree |-> t]
             ELSE InsertAll(r.tree, order, i + 1)

\* every key the boxed trie should hold is found with its value, and no
\* other key is found
WellStored == \A j \in BKeys : BTreeGet(root_node, j) = Returned(bmodel[j])

----------------------------------------------------------------------------
(* The claims *)

\* C1: after every insert of a sequence of inserts on a new trie, the insert
\* has returned and get(k) returns Some(v) for every key k inserted so far,
\* v being the value of the most recent insert of k.
C1_GetAfterInsert ==
    last.op = "insert" =>
        /\ ~aborted
        /\ \A k \in StoredKeys : TreeGet(root_ref, nodes, values, k) = Returned(model[k])

\* C2: after any sequence of inserts, get(q) returns None for every key q
\* that is not stored.
C2_AbsentKey ==
    ~aborted =>
        \A q \in Keys \ StoredKeys : TreeGet(root_ref, nodes, values, q) = Returned(None)

\* C3: insert(k, v) returns None when k was not stored and Some(previous
\* value) when it was; in the second case len() is unchanged and no other
\* key's value changes.
C3_InsertReturnsPrevious ==
    [][(last'.op = "insert" /\ ~aborted') =>
          /\ last'.res = model[last'.key]
          /\ model[last'.key].some =>
                /\ TreeLen(values') = TreeLen(values)
                /\ \A j \in StoredKeys \ {last'.key} :
                      TreeGet(root_ref', nodes', values', j)
                          = TreeGet(root_ref, nodes, values, j)]_vars

\* C4: when one key is a strict byte-prefix of another and both have been
\* inserted, in either order and at any depth, the inserts return and both
\* keys are found with their own values.
C4_PrefixKeys ==
    \A p, q \in Keys :
        (/\ Len(p) < Len(q) /\ SubSeq(q, 1, Len(p)) = p
         /\ last.op = "insert"
         /\ last.key \in {p, q}
         /\ model[p].some \/ last.key = p
         /\ model[q].some \/ last.key = q) =>
            /\ ~aborted
            /\ TreeGet(root_ref, nodes, values, p) = Returned(model[p])
            /\ TreeGet(root_ref, nodes, values, q) = Returned(model[q])

\* C5: for the set of pairs the trie holds, every order of inserting them
\* into a new trie yields the same shape and the same compute_hash result.
C5_OrderIndependence ==
    LET ref == InsertAll(TreeState(INVALID_REF, SlabNew, SlabNew), CHOOSE p \in Orders(StoredKeys) : TRUE, 1)
    IN  \A p \in Orders(StoredKeys) :
            LET res == InsertAll(TreeState(INVALID_REF, SlabNew, SlabNew), p, 1)
            IN  /\ ~res.panic /\ ~ref.panic
                /\ TreeShape(res.tree) = TreeShape(ref.tree)
                /\ TreeHash(res.tree) = TreeHash(ref.tree)

\* C9: an insert of (k, v) right after an insert of (k, v) returns Some(v)
\* and leaves the shape, the stored pairs, len() and the root hash as the
\* first insert left them.
C9_InsertIdempotent ==
    [][(/\ last.op = "insert" /\ ~aborted
        /\ last'.op = "insert"
        /\ last'.key = last.key /\ last'.value = last.value) =>
          /\ ~aborted'
          /\ last'.res = Some(last.value)
          /\ TreeShape(TreeState(root_ref', nodes', values')) = TreeShape(TreeState(root_ref, nodes, values))
          /\ TreeLen(values') = TreeLen(values)
          /\ \A j \in StoredKeys : TreeGet(root_ref', nodes', values', j)
                                       = TreeGet(root_ref, nodes, values, j)
          /\ TreeHash(TreeState(root_ref', nodes', values')) = TreeHash(TreeState(root_ref, nodes, values))]_vars

C6_RemoveStored ==
    [][(/\ last'.op = "remove" /\ ~aborted
        /\ bmodel[last'.key].some /\ WellStored) =>
          /\ ~aborted'
          /\ last'.res = bmodel[last'.key]
          /\ BTreeGet(root_node', last'.key) = Returned(None)
          /\ \A j \in BKeys \ {last'.key} : BTreeGet(root_node', j) = Returned(bmodel[j])
          /\ (root_node' = Nil) <=> (Cardinality({ j \in BKeys : bmodel[j].some }) = 1)]_vars

\* C7: remove(k) of a key that is not stored returns None and leaves the
\* boxed trie as it was.
C7_RemoveAbsent ==
    [][(last'.op = "remove" /\ ~aborted /\ ~bmodel[last'.key].some) =>
          /\ ~aborted'
          /\ last'.res = None
          /\ root_node' = root_node]_vars

\* C8: for a boxed trie and a key k it does not hold, insert(k, v) followed
\* by remove(k) yields the trie it started from.
C8_InsertRemoveRoundTrip ==
    ~aborted =>
        \A k \in BKeys, v \in Values :
            (~bmodel[k].some /\ WellStored) =>
                LET i == BTreeInsert(root_node, k, v)
                    r == BTreeRemove(i.node, k)
                IN  /\ ~i.panic
                    /\ ~r.panic
                    /\ r.old = Some(v)
                    /\ r.node = root_node

\* C11: on a non-empty trie compute_hash returns a digest of HashLen bytes
\* that is the digest of the root node's list encoding applied exactly
\* once: the digest of the encoding when the encoding is shorter than
\* HashLen bytes, and the digest the root node already produced (not a
\* digest of it) when the encoding has HashLen bytes or more.
C11_RootDigestOnce ==
    (~aborted /\ last.op = "compute_hash" /\ SlabContains(nodes, root_ref)) =>
        /\ last.res.some
        /\ Len(last.res.val) = HashLen
        /\ LET \* the root node's hash cache: its list encoding when that is
               \* shorter than HashLen bytes, the digest of the encoding otherwise
               cache == SlabEntry(nodes, root_ref).item.hash
           IN  last.res.val = IF cache.len < HashLen
                              THEN Digest(SubSeq(cache.buf, 1, cache.len))
                              ELSE cache.buf

\* C12: compute_hash changes no stored pair and no node: every node it
\* takes out of the arena is back afterwards, so the trie has the shape it
\* had, get(k) returns for every key what it returned before, len() is
\* unchanged and no handle is left without its node.
C12_HashPreservesContents ==
    [][(last'.op = "compute_hash" /\ ~aborted) =>
          /\ ~aborted'
          /\ values' = values
          /\ SlabLen(nodes') = SlabLen(nodes)
          /\ TreeLen(values') = TreeLen(values)
          /\ TreeShape(TreeState(root_ref', nodes', values')) = TreeShape(TreeState(root_ref, nodes, values))
          /\ \A k \in HKeys : TreeGet(root_ref', nodes', values', k)
                                  = TreeGet(root_ref, nodes, values, k)]_vars

\* C13: after any interleaving of insert and compute_hash, compute_hash
\* returns what it returns on a new trie built from the pairs the trie
\* holds (in some order of inserting them), and an insert or compute_hash
\* panics only where it panics on such a new trie too: no cached node
\* hash, and nothing else hashing leaves behind, survives a change of the
\* encoding of a subtree or of its key offset.
C13_HashCacheCoherent ==
    LET \* the new tries built from the pairs the trie holds, one for each
        \* order of inserting them in which no insert panics
        FreshTries ==
            { f.tree : f \in { g \in { InsertAll(TreeState(INVALID_REF, SlabNew, SlabNew), p, 1) :
                                          p \in Orders(StoredKeys) } : ~g.panic } }
        Cur == TreeState(root_ref, nodes, values)
    IN  /\ (~aborted /\ StoredKeys # {}) =>
               /\ ~TreeHash(Cur).panic
               /\ \E f \in FreshTries : TreeHash(f) = TreeHash(Cur)
        /\ (aborted /\ last.op = "insert") =>
               \E f \in FreshTries :
                   TreeInsert(f.root_ref, f.nodes, f.values, last.key, last.value).panic
        /\ (aborted /\ last.op = "compute_hash") =>
               \E f \in FreshTries : TreeHash(f).panic

\* C14: len() is the number of distinct keys the trie holds, and
\* is_empty() is true exactly when len() is 0.
C14_LenCountsKeys ==
    ~aborted =>
        /\ TreeLen(values) = Cardinality(StoredKeys)
        /\ TreeIsEmpty(nodes) <=> (TreeLen(values) = 0)

\* the pairs the boxed trie should hold for the keys of S, in ascending
\* key order
AscendingPairs(S) ==
    [i \in 1..Cardinality(S) |-> <<AscendingKeys(S)[i], bmodel[AscendingKeys(S)[i]].val>>]

BStoredKeys == { k \in BKeys : bmodel[k].some }

\* a well-formed boxed subtree under the nibbles `path`: a leaf's key
\* starts with the path that leads to it, an extension has a prefix and a
\* branch below it, a branch has at least two children
RECURSIVE BWellFormed(_, _)
BWellFormed(node, path) ==
    IF node.type = "leaf"
    THEN Len(path) <= 2 * KeyBytes /\ SubSeq(NibblesOf(node.key, 0, 2 * KeyBytes), 1, Len(path)) = path
    ELSE IF node.type = "extension"
    THEN /\ node.prefix # <<>>
         /\ node.child.type = "branch"
         /\ BWellFormed(node.child, path \o node.prefix)
    ELSE IF node.type = "branch"
    THEN /\ Cardinality(Children(node.choices)) >= 2
         /\ \A i \in Children(node.choices) : BWellFormed(node.choices[i], path \o <<i>>)
    ELSE FALSE

\* C15: on a well-formed boxed trie (empty included) that holds exactly
\* the pairs it was given, the tree iterator returns each stored pair
\* once, in ascending key order, and then None on every later call; no
\* call of next runs on without returning.
C15_IterationInOrder ==
    (iter.live /\ WellStored /\ (root_node = Nil \/ BWellFormed(root_node, <<>>))) =>
        /\ ~aborted
        /\ Len(iter.out) <= Len(AscendingPairs(BStoredKeys))
        /\ iter.out = SubSeq(AscendingPairs(BStoredKeys), 1, Len(iter.out))
        /\ (iter.nones > 0) => (iter.out = AscendingPairs(BStoredKeys))

\* C15: the iterator over a trie whose root is a branch that has a branch
\* as a child has returned all three pairs and then None twice
C15_Witness ==
    /\ iter.live /\ iter.nones = MaxNones /\ Len(iter.out) = 3 /\ ~aborted
    /\ WellStored /\ BWellFormed(root_node, <<>>)
    /\ root_node.type = "branch"
    /\ \E i \in Children(root_node.choices) : root_node.choices[i].type = "branch"

\* C16: drain_filter on a well-formed boxed trie that holds exactly the
\* pairs it was given removes exactly the pairs the filter accepts and
\* hands them out in ascending key order; every other pair is still
\* found, no node is left exactly when every pair was drained, and the
\* trie left is the one single removes of the drained keys leave.
C16_DrainFilter ==
    [][(/\ last'.op = "drain_filter" /\ ~aborted /\ WellStored
        /\ (root_node = Nil \/ BWellFormed(root_node, <<>>))) =>
          LET \* the keys the filter of the drain_filter accepts
              DrainedKeys == { last'.key[i] : i \in 1..Len(last'.key) }
              \* the boxed trie after remove of each key of `keys` in turn
              RECURSIVE RemoveAll(_, _, _)
              RemoveAll(node, keys, i) ==
                  IF i > Len(keys) THEN [panic |-> FALSE, node |-> node]
                  ELSE LET r == BTreeRemove(node, keys[i])
                       IN  IF r.panic THEN [panic |-> TRUE, node |-> node]
                           ELSE RemoveAll(r.node, keys, i + 1)
              rm == RemoveAll(root_node, AscendingKeys(DrainedKeys \cap BStoredKeys), 1)
          IN  /\ last'.res = Some(AscendingPairs(DrainedKeys \cap BStoredKeys))
              /\ \A j \in DrainedKeys : BTreeGet(root_node', j) = Returned(None)
              /\ \A j \in BKeys \ DrainedKeys :
                     BTreeGet(root_node', j) = Returned(bmodel[j])
              /\ (root_node' = Nil) <=> (BStoredKeys \subseteq DrainedKeys)
              /\ ~rm.panic /\ rm.node = root_node']_vars

\* C17: split_extract_at(i) of a nibble vector in any of the four
\* alignment cases, for i below its nibble count, returns a left vector,
\* a nibble and a right vector whose nibbles in this order are the
\* nibbles of the vector; the left vector has exactly i nibbles, and a
\* side with no nibbles is the empty vector (no data, both flags false).
\* For i at or beyond the nibble count the call aborts.
C17_SplitExtractRoundTrip ==
    (nibbles.op = "split_extract_at") =>
        LET v == NibbleVecNibbles(nibbles.vec)
            left == NibbleVecNibbles(nibbles.ret.left)
            right == NibbleVecNibbles(nibbles.ret.right)
        IN  /\ aborted => nibbles.index >= Len(v)
            /\ nibbles.called =>
                   /\ nibbles.index < Len(v)
                   /\ left \o <<nibbles.ret.value>> \o right = v
                   /\ Len(left) = nibbles.index
                   /\ (left = <<>>) => (nibbles.ret.left = NibbleVecNew)
                   /\ (right = <<>>) => (nibbles.ret.right = NibbleVecNew)

\* C17: a vector that starts and ends on a half byte was split at its
\* first nibble: the left side is empty, the right side is not
C17_Witness ==
    /\ nibbles.op = "split_extract_at" /\ nibbles.called /\ ~aborted
    /\ nibbles.vec.first_is_half /\ nibbles.vec.last_is_half
    /\ nibbles.index = 0
    /\ nibbles.ret.left = NibbleVecNew
    /\ NibbleVecNibbles(nibbles.ret.right) # <<>>

\* C18: skip_prefix of a nibble slice at any offset with a nibble vector
\* whose first_is_half matches the parity of the offset returns true and
\* moves the offset on by the nibble count of the vector when the next
\* nibbles of the slice are those of the vector; otherwise it returns
\* false and leaves the offset, also when the slice has fewer nibbles
\* left than the vector holds: it does not abort.
C18_SkipPrefix ==
    (nibbles.op = "skip_prefix") =>
        LET p == NibbleVecNibbles(nibbles.vec)
            rest == NibblesOf(nibbles.slice.data, nibbles.slice.offset,
                              NibbleCount(nibbles.slice.data))
            \* the nibbles of the vector are the next nibbles of the slice
            PrefixMatches == Len(p) <= Len(rest) /\ SubSeq(rest, 1, Len(p)) = p
        IN  /\ ~aborted
            /\ nibbles.called =>
                   /\ nibbles.ret.ret = PrefixMatches
                   /\ nibbles.ret.offset =
                          nibbles.slice.offset + (IF PrefixMatches THEN Len(p) ELSE 0)

\* the nodes of one type in the arena
ArenaNodes(type) ==
    { SlabEntry(nodes, r).item : r \in { q \in 0..(Len(nodes.entries) - 1) :
                                            /\ SlabContains(nodes, q)
                                            /\ SlabEntry(nodes, q).item.type = type } }

\* the extension nodes of a boxed subtree
RECURSIVE BExtensions(_)
BExtensions(node) ==
    IF node.type = "extension" THEN {node} \cup BExtensions(node.child)
    ELSE IF node.type = "branch"
    THEN UNION { BExtensions(node.choices[i]) : i \in Children(node.choices) }
    ELSE {}

\* C19: after every insert and remove the child of every extension node
\* is a branch, never a leaf and never an extension, in the arena trie
\* and in the boxed trie.
C19_ExtensionChildIsBranch ==
    ~aborted =>
        /\ \A e \in ArenaNodes("extension") :
               /\ SlabContains(nodes, e.child_ref)
               /\ SlabEntry(nodes, e.child_ref).item.type = "branch"
        /\ \A e \in BExtensions(root_node) : e.child.type = "branch"

\* the branch nodes of a boxed subtree
RECURSIVE BBranches(_)
BBranches(node) ==
    IF node.type = "extension" THEN BBranches(node.child)
    ELSE IF node.type = "branch"
    THEN {node} \cup UNION { BBranches(node.choices[i]) : i \in Children(node.choices) }
    ELSE {}

\* C20: after every completed insert and remove every branch has at least
\* two exits, an exit being a child slot in use or the branch's own
\* value, in the arena trie and in the boxed trie.
C20_BranchMinimality ==
    ~aborted =>
        /\ \A b \in ArenaNodes("branch") :
               Cardinality(ValidChoices(b)) + (IF is_valid(b.value_ref) THEN 1 ELSE 0) >= 2
        /\ \A b \in BBranches(root_node) : Cardinality(Children(b.choices)) >= 2

\* a remove has just taken an exit from a trie that still has a branch
C20_Witness ==
    /\ ~aborted
    /\ last.op = "remove"
    /\ last.res.some
    /\ ArenaNodes("branch") # {} \/ (root_node # Nil /\ BBranches(root_node) # {})

\* the handles of the nodes that are reached from a node handle
RECURSIVE Reachable(_, _, _)
Reachable(ns, ref, fuel) ==
    IF ~is_valid(ref) \/ fuel = 0 \/ ~SlabContains(ns, ref) THEN {}
    ELSE LET n == SlabEntry(ns, ref).item
         IN  {ref} \cup
             (IF n.type = "branch"
              THEN UNION { Reachable(ns, n.choices[i], fuel - 1) : i \in 0..15 }
              ELSE IF n.type = "extension" THEN Reachable(ns, n.child_ref, fuel - 1)
              ELSE {})

\* C21: after every insert and remove every extension node of the trie
\* has a prefix of at least one nibble, also after the split of an
\* extension at the first or at the last nibble of its prefix, in the
\* arena trie and in the boxed trie.
C21_ExtensionPrefixNonEmpty ==
    ~aborted =>
        /\ \A r \in Reachable(nodes, root_ref, MaxDepth) :
               SlabEntry(nodes, r).item.type = "extension" =>
                   SlabEntry(nodes, r).item.prefix # <<>>
        /\ \A e \in BExtensions(root_node) : e.prefix # <<>>

\* C22: a remove that leaves a branch of the boxed trie with one child
\* keeps the nibble of that child's slot on the path to everything below
\* it, whatever the parent is: after a remove on a well-formed trie every
\* leaf still sits at the nibbles its key starts with, and every key that
\* is left is found by get.
C22_CollapseKeepsNibble ==
    [][(/\ last'.op = "remove" /\ ~aborted /\ ~aborted'
        /\ WellStored
        /\ root_node # Nil /\ BWellFormed(root_node, <<>>)) =>
          LET RECURSIVE Placed(_, _)
              Placed(node, path) ==
                  IF node.type = "leaf"
                  THEN /\ Len(path) <= 2 * KeyBytes
                       /\ SubSeq(NibblesOf(node.key, 0, 2 * KeyBytes), 1, Len(path)) = path
                  ELSE IF node.type = "extension"
                  THEN Placed(node.child, path \o node.prefix)
                  ELSE IF node.type = "branch"
                  THEN \A i \in Children(node.choices) :
                           Placed(node.choices[i], path \o <<i>>)
                  ELSE TRUE
          IN  /\ Placed(root_node', <<>>)
              /\ \A j \in BKeys \ {last'.key} :
                     bmodel[j].some => BTreeGet(root_node', j) = Returned(bmodel[j])]_vars

\* C23: insert of a key at a leaf found at nibble offset d, the leaf's key
\* being another one that shares L nibbles with it from d on (both keys
\* going on after them): for L > 0 the result is an extension, with
\* nibbles d .. d+L-1 of the key as its prefix, over a branch that holds
\* the old leaf and the new entry at their first differing nibbles; for
\* L = 0 it is that branch alone. Checked for every leaf of the arena trie
\* and of the boxed trie at the offset it is found at, with every key that
\* has the nibbles of the leaf's key before that offset.
C23_LeafSplit ==
    LET RECURSIVE Leaves(_, _, _)
        Leaves(ref, d, fuel) ==
            IF ~is_valid(ref) \/ fuel = 0 \/ ~SlabContains(nodes, ref) THEN {}
            ELSE LET n == SlabEntry(nodes, ref).item
                 IN  IF n.type = "leaf" THEN { <<n, d>> }
                     ELSE IF n.type = "extension"
                     THEN Leaves(n.child_ref, d + Len(n.prefix), fuel - 1)
                     ELSE UNION { Leaves(n.choices[i], d + 1, fuel - 1) : i \in 0..15 }
        RECURSIVE BLeaves(_, _)
        BLeaves(node, d) ==
            IF node.type = "leaf" THEN { <<node, d>> }
            ELSE IF node.type = "extension" THEN BLeaves(node.child, d + Len(node.prefix))
            ELSE IF node.type = "branch"
            THEN UNION { BLeaves(node.choices[i], d + 1) : i \in Children(node.choices) }
            ELSE {}
        Wrapped(key, d, L, branch) ==
            IF L > 0
            THEN [type |-> "extension", prefix |-> NibblesOf(key, d, d + L), child |-> branch]
            ELSE branch
    IN  ~aborted =>
          /\ \A l \in Leaves(root_ref, 0, MaxDepth), k \in Keys :
                 LET self == l[1]
                     d == l[2]
                     old == SlabEntry(values, self.value_ref).item
                     L == CommonFrom(old.path, k, d)
                     r == LeafNodeInsert(self, nodes, values, [data |-> k, offset |-> d])
                     s == SlabInsert(r.nodes, r.node)
                 IN  (/\ SlabContains(values, self.value_ref)
                      /\ NibblesOf(k, 0, d) = NibblesOf(old.path, 0, d)
                      /\ d + L < NibbleCount(k) /\ d + L < NibbleCount(old.path)) =>
                         /\ ~r.panic
                         /\ Shape(s.slab, values, s.key, MaxDepth) =
                                Wrapped(k, d, L,
                                    [type |-> "branch", value |-> None,
                                     choices |-> [i \in 0..15 |->
                                         IF i = NibbleAt(old.path, d + L)
                                         THEN [type |-> "leaf", value |-> Some(old)]
                                         ELSE IF i = NibbleAt(k, d + L)
                                         THEN [type |-> "leaf", value |-> None]
                                         ELSE [type |-> "none"]]])
          /\ \A l \in BLeaves(root_node, 0), k \in BKeys, v \in Values :
                 LET self == l[1]
                     d == l[2]
                     L == CommonFrom(self.key, k, d)
                     r == BLeafInsert(self, k, v, d)
                 IN  (/\ NibblesOf(k, 0, d) = NibblesOf(self.key, 0, d)
                      /\ k # self.key /\ d + L < 2 * KeyBytes) =>
                         /\ ~r.panic
                         /\ r.node = Wrapped(k, d, L,
                                BBranch([NilChoices EXCEPT
                                    ![NibbleAt(self.key, d + L)] = self,
                                    ![NibbleAt(k, d + L)] = BLeaf(k, v)]))

\* C24: insert of a key at an extension whose prefix first differs from
\* the rest of the key at position p (the key going on there): with left
\* the first p nibbles of the prefix and right the nibbles after position
\* p, the result is a branch that holds, in the slot of the prefix's
\* nibble p, the original child itself when right is empty and
\* Extension(right, child) otherwise, and in the slot of the key's nibble
\* the new entry; the branch is under Extension(left, branch) exactly when
\* left is not empty. Checked for every extension of the arena trie and
\* of the boxed trie with every key that has the nibbles leading to it.
C24_ExtensionSplit ==
    LET RECURSIVE Exts(_, _, _)
        Exts(ref, path, fuel) ==
            IF ~is_valid(ref) \/ fuel = 0 \/ ~SlabContains(nodes, ref) THEN {}
            ELSE LET n == SlabEntry(nodes, ref).item
                 IN  IF n.type = "extension"
                     THEN { <<ref, path>> } \cup Exts(n.child_ref, path \o n.prefix, fuel - 1)
                     ELSE IF n.type = "branch"
                     THEN UNION { Exts(n.choices[i], path \o <<i>>, fuel - 1) : i \in 0..15 }
                     ELSE {}
        RECURSIVE BExts(_, _)
        BExts(node, path) ==
            IF node.type = "extension"
            THEN { <<node, path>> } \cup BExts(node.child, path \o node.prefix)
            ELSE IF node.type = "branch"
            THEN UNION { BExts(node.choices[i], path \o <<i>>) : i \in Children(node.choices) }
            ELSE {}
        \* position of the first nibble of `prefix` that differs from the
        \* key from nibble d on, Len(prefix) when none does
        RECURSIVE Differs(_, _, _, _)
        Differs(k, d, prefix, p) ==
            IF p >= Len(prefix) \/ d + p >= NibbleCount(k) THEN p
            ELSE IF NibbleAt(k, d + p) # prefix[p + 1] THEN p
            ELSE Differs(k, d, prefix, p + 1)
        Split(prefix, p, child, entry, new, none, ext(_, _), branch(_)) ==
            LET left == SubSeq(prefix, 1, p)
                right == SubSeq(prefix, p + 2, Len(prefix))
                b == branch([i \in 0..15 |->
                         IF i = prefix[p + 1]
                         THEN IF right = <<>> THEN child ELSE ext(right, child)
                         ELSE IF i = new THEN entry
                         ELSE none])
            IN  IF left = <<>> THEN b ELSE ext(left, b)
        AExt(prefix, child) == [type |-> "extension", prefix |-> prefix, child |-> child]
        ABranch(choices) == [type |-> "branch", value |-> None, choices |-> choices]
    IN  ~aborted =>
          /\ \A e \in Exts(root_ref, <<>>, MaxDepth), k \in Keys, v \in Values :
                 LET self == SlabEntry(nodes, e[1]).item
                     d == Len(e[2])
                     p == Differs(k, d, self.prefix, 0)
                     r == ExtensionNodeInsert(self, SlabRemove(nodes, e[1]), values,
                                              [data |-> k, offset |-> d])
                     s == SlabInsert(r.nodes, r.node)
                     \* the pair in the slot the new leaf names, where the
                     \* facade stores it
                     pair == [path |-> k, value |-> v]
                     stored == SlabInsert(values, pair).slab
                 IN  (/\ NibblesOf(k, 0, d) = e[2]
                      /\ p < Len(self.prefix) /\ d + p < NibbleCount(k)) =>
                         /\ ~r.panic
                         /\ Shape(s.slab, stored, s.key, MaxDepth) =
                                Split(self.prefix, p,
                                      Shape(nodes, values, self.child_ref, MaxDepth),
                                      [type |-> "leaf", value |-> Some(pair)],
                                      NibbleAt(k, d + p), [type |-> "none"], AExt, ABranch)
          /\ \A e \in BExts(root_node, <<>>), k \in BKeys, v \in Values :
                 LET self == e[1]
                     d == Len(e[2])
                     p == Differs(k, d, self.prefix, 0)
                     r == BExtensionInsert(self, k, v, d)
                 IN  (/\ NibblesOf(k, 0, d) = e[2]
                      /\ p < Len(self.prefix) /\ d + p < 2 * KeyBytes) =>
                         /\ ~r.panic
                         /\ r.node = Split(self.prefix, p, self.child, BLeaf(k, v),
                                           NibbleAt(k, d + p), Nil, BExtension, BBranch)

\* C25: when the facade resolves the action the root's insert returns for a
\* new key k, Insert(h) names the node k's path ends at, a leaf or a branch
\* at depth NibbleCount(k) whose value handle is not that of a stored
\* value, and after the call that node alone holds the new value handle.
C25_InsertActionResolution ==
    LET RECURSIVE PathEnd(_, _, _, _, _)
        PathEnd(ns, ref, k, d, fuel) ==
            IF ~SlabContains(ns, ref) \/ fuel = 0 THEN INVALID_REF
            ELSE LET n == SlabEntry(ns, ref).item
                 IN  IF n.type = "leaf" THEN ref
                     ELSE IF n.type = "branch"
                     THEN IF d = NibbleCount(k) THEN ref
                          ELSE PathEnd(ns, n.choices[NibbleAt(k, d)], k, d + 1, fuel - 1)
                     ELSE IF NibblesOf(k, d, d + Len(n.prefix)) = n.prefix
                          THEN PathEnd(ns, n.child_ref, k, d + Len(n.prefix), fuel - 1)
                          ELSE INVALID_REF
        Holders(ns, h) ==
            { i \in 0..(Len(ns.entries) - 1) :
                /\ SlabContains(ns, i)
                /\ SlabEntry(ns, i).item.type # "extension"
                /\ SlabEntry(ns, i).item.value_ref = h }
    IN  (~aborted /\ SlabContains(nodes, root_ref)) =>
            \A k \in Keys \cup { <<1, 0>>, <<0, 16>> }, v \in Values :
                LET r == NodeInsert(SlabEntry(nodes, root_ref).item,
                                    SlabRemove(nodes, root_ref), values, NibbleSliceNew(k))
                    n == SlabInsert(r.nodes, r.node)
                    action == quantize_self(r.action, n.key)
                    t == TreeInsert(root_ref, nodes, values, k, v)
                    h == vacant_key(values)
                IN  (k \notin StoredKeys /\ ~r.panic
                        /\ action.kind = "Insert") =>
                        /\ ~t.panic
                        /\ action.ref = PathEnd(t.tree.nodes, t.tree.root_ref, k, 0, MaxDepth)
                        /\ SlabEntry(n.slab, action.ref).item.value_ref \in { INVALID_REF, h }
                        /\ Holders(t.tree.nodes, h) = { action.ref }

\* C26: the encoding a branch or an extension computes is the list of its
\* items, where a child whose own encoding has fewer than HashLen bytes is
\* that encoding as it is, a child with a longer encoding is the byte string
\* of its digest, an empty slot or an absent value of a branch is the byte
\* 128, and the list header gives the length of all the items together.
C26_ChildHashReference ==
    LET RECURSIVE Inner(_, _, _)
        \* the branches and extensions below a handle, each with its depth
        Inner(ref, d, fuel) ==
            IF ~SlabContains(nodes, ref) \/ fuel = 0 THEN {}
            ELSE LET n == SlabEntry(nodes, ref).item
                 IN  IF n.type = "branch"
                     THEN { <<ref, d>> } \cup
                          UNION { Inner(n.choices[i], d + 1, fuel - 1) : i \in 0..15 }
                     ELSE IF n.type = "extension"
                     THEN { <<ref, d>> } \cup Inner(n.child_ref, d + Len(n.prefix), fuel - 1)
                     ELSE {}
        \* what a parent includes for the child under a handle
        Child(ref, d) ==
            LET c == NodeComputeHash(SlabEntry(nodes, ref).item, nodes, values, d, MaxDepth)
                own == SubSeq(c.node.hash.buf, 1, c.node.hash.len)
            IN  IF Len(own) < HashLen THEN own ELSE write_slice(own)
        RECURSIVE Items(_, _, _)
        Items(self, d, i) ==
            IF i > 15 THEN <<>>
            ELSE (IF is_valid(self.choices[i]) THEN Child(self.choices[i], d + 1)
                  ELSE <<128>>) \o Items(self, d, i + 1)
        Payload(self, d) ==
            IF self.type = "extension"
            THEN write_slice(encode_path(self.prefix, FALSE))
                     \o Child(self.child_ref, d + Len(self.prefix))
            ELSE Items(self, d, 0)
                     \o (IF is_valid(self.value_ref)
                         THEN write_slice(SlabEntry(values, self.value_ref).item.value)
                         ELSE <<128>>)
    IN  ~aborted =>
            \A e \in Inner(root_ref, 0, MaxDepth) :
                LET self == SlabEntry(nodes, e[1]).item
                    h == NodeComputeHash(self, nodes, values, e[2], MaxDepth)
                IN  (self.hash.len = 0 /\ ~h.panic) =>
                        h.node.hash =
                            extract_or_finalize(write_list(Payload(self, e[2])), self.hash.buf)

\* C27: after every operation, every node below a node reachable from the
\* root whose hash cache is filled has a filled hash cache too: no clean
\* node has a dirty descendant.
C27_DirtyPropagation ==
    ~aborted =>
        \A r \in Reachable(nodes, root_ref, MaxDepth) :
            SlabEntry(nodes, r).item.hash.len # 0 =>
                \A q \in Reachable(nodes, r, MaxDepth) : SlabEntry(nodes, q).item.hash.len # 0

\* C28: after every operation the root handle is invalid exactly when both
\* arenas are empty, every handle held by a node reachable from the root
\* names an occupied slot, every occupied node slot is the root or is named
\* by exactly one child handle, and every occupied value slot is named by
\* exactly one node.
C28_ArenaOwnership ==
    LET Occupied(slab) == { i \in 0..(Len(slab.entries) - 1) : SlabContains(slab, i) }
        \* the child handles a node holds, each with the slot it is held in
        Handles(n) ==
            IF n.type = "branch"
            THEN { <<i, n.choices[i]>> : i \in { j \in 0..15 : is_valid(n.choices[j]) } }
            ELSE IF n.type = "extension" THEN { <<0, n.child_ref>> }
            ELSE {}
        Holds(n, v) == n.type # "extension" /\ n.value_ref = v
    IN  ~aborted =>
            /\ ~is_valid(root_ref) <=> (SlabLen(nodes) = 0 /\ SlabLen(values) = 0)
            /\ \A r \in Reachable(nodes, root_ref, MaxDepth) :
                   LET n == SlabEntry(nodes, r).item
                   IN  /\ \A h \in Handles(n) : SlabContains(nodes, h[2])
                       /\ (n.type # "extension" /\ is_valid(n.value_ref)) =>
                              SlabContains(values, n.value_ref)
            /\ \A i \in Occupied(nodes) :
                   LET named == UNION { { <<p, h[1]>> :
                                            h \in { g \in Handles(SlabEntry(nodes, p).item) :
                                                      g[2] = i } } : p \in Occupied(nodes) }
                   IN  i = root_ref \/ Cardinality(named) = 1
            /\ \A v \in Occupied(values) :
                   Cardinality({ p \in Occupied(nodes) : Holds(SlabEntry(nodes, p).item, v) }) = 1

\* C29: no call of a sequence of insert, get and compute_hash calls
\* aborts, whatever the keys and values are.
C29_NoAbort == ~(aborted /\ last.op \in { "insert", "get", "compute_hash" })

\* C30: a trie and a copy of it that is given one more insert, of a key not
\* stored or of another value for a stored key (the empty value included),
\* store different maps and so never have the same root node encoding
\* (compared where an encoding is short enough to be kept as it is, not as
\* its digest).
C30_EncodingInjective ==
    LET \* the encoding of the root node, as its compute_hash leaves it
        Encoding(t) ==
            IF ~SlabContains(t.nodes, t.root_ref) THEN [panic |-> FALSE, bytes |-> <<>>]
            ELSE LET h == NodeComputeHash(SlabEntry(t.nodes, t.root_ref).item,
                                          SlabRemove(t.nodes, t.root_ref), t.values, 0,
                                          MaxDepth)
                 IN  [panic |-> h.panic,
                      bytes |-> IF h.panic THEN <<>>
                                ELSE SubSeq(h.node.hash.buf, 1, h.node.hash.len)]
        mine == Encoding(TreeState(root_ref, nodes, values))
    IN  (~aborted /\ ~mine.panic) =>
            \A k \in HKeys, v \in Values \cup { <<>> } :
                LET copy == TreeInsert(root_ref, nodes, values, k, v)
                    theirs == Encoding(copy.tree)
                IN  (/\ model[k] # Some(v)
                     /\ ~copy.panic /\ ~theirs.panic
                     /\ Len(mine.bytes) < HashLen \/ Len(theirs.bytes) < HashLen) =>
                        theirs.bytes # mine.bytes

====
